---- MODULE Spec2Model ----
(***************************************************************************)
(* A model of the todo-list stores of this repository:                     *)
(*   - SessionPersistence     (src/lib/session-persistence.js)             *)
(*   - PgPersistence, single-user variant (src/lib/sort.js, lines 26-233)  *)
(*   - PgPersistence, multi-user variant  (src/lib/sort.js, lines 238-467) *)
(*   - sortTodoItems / compareByTitle     (src/lib/sort.js, lines 1-24)    *)
(* Every store method is a pure operator from the store's contents and the *)
(* call's arguments to the new contents and the returned value; one action *)
(* per method applies it to the store of the variant under test.           *)
(*                                                                         *)
(* Titles are sequences of character codes, so that toLowerCase and the    *)
(* string comparison of compareByTitle are computed, not assumed.          *)
(* A returned value is one of the strings "true", "false", "undefined"     *)
(* (a method that ends without a return statement, or that returns the     *)
(* absent marker) and "throw" (an exception or a rejected promise).        *)
(***************************************************************************)
EXTENDS Integers, Sequences, FiniteSets, TLC

\* ------------------------------------------------------------------ bounds
\* The number of identifiers a generator hands out in one behaviour.
MaxId == 2
\* The number of rows of the todos table / todos of the session store.
MaxTodos == 2
\* The number of todo lists held at one time.
MaxLists == 2

\* ------------------------------------------------------------------ values
\* The titles given to lists, as character codes: "a" and "B". "B" sorts
\* before "a" by code unit and after it once lower-cased.
Titles == { <<97>>, <<66>> }

\* The titles a caller asks about: those and "A", which differs from "a" only
\* by case.
QueryTitles == Titles \cup { <<65>> }

\* Titles given to todos.
TodoTitles == { <<97>>, <<66>> }

\* The users of the multi-user variant (session.username of a signed-in user).
Users == { "u1", "u2" }

\* The owner written in a row of the single-user variant and of the session
\* store, which have no username column.
NoUser == "-"

Variants == { "session", "pg1", "pg" }

\* ------------------------------------------------------------------ strings
\* String.prototype.toLowerCase on the ASCII letters.
toLowerCase(s) ==
  [i \in DOMAIN s |-> IF s[i] >= 65 /\ s[i] <= 90 THEN s[i] + 32 ELSE s[i]]

\* a < b on strings: the first differing code unit decides, a proper prefix is less.
StrLess(a, b) ==
  \E k \in 0..Len(a) :
    /\ k <= Len(b)
    /\ \A i \in 1..k : a[i] = b[i]
    /\ \/ k = Len(a) /\ Len(b) > k
       \/ k < Len(a) /\ k < Len(b) /\ a[k + 1] < b[k + 1]

\* The raw comparison, without lower-casing.
compareByTitleCaseSensitive(itemA, itemB) ==
  IF StrLess(itemA.title, itemB.title) THEN -1
  ELSE IF StrLess(itemB.title, itemA.title) THEN 1
  ELSE 0

compareByTitle(itemA, itemB) ==
  LET titleA == toLowerCase(itemA.title)
      titleB == toLowerCase(itemB.title)
  IN  IF StrLess(titleA, titleB) THEN -1
      ELSE IF StrLess(titleB, titleA) THEN 1
      ELSE 0

\* ------------------------------------------------------------------ arrays
\* Array.prototype.sort(compareByTitle): a stable sort. An element is put
\* behind every element already placed that does not compare greater.
RECURSIVE ArraySort(_)
ArraySort(arr) ==
  IF arr = <<>> THEN <<>>
  ELSE LET rest == ArraySort(SubSeq(arr, 1, Len(arr) - 1))
           x    == arr[Len(arr)]
           k    == Cardinality({ i \in DOMAIN rest : compareByTitle(rest[i], x) <= 0 })
       IN  SubSeq(rest, 1, k) \o <<x>> \o SubSeq(rest, k + 1, Len(rest))

\* sortTodoItems without the two sorts.
sortTodoItemsNoSort(undone, done) == undone \o done

\* sortTodoItems with the groups in the wrong order.
sortTodoItemsDoneFirst(undone, done) == ArraySort(done) \o ArraySort(undone)

sortTodoItems(undone, done) == ArraySort(undone) \o ArraySort(done)

\* Array.prototype.findIndex for "element.id === id": the 0-based index of the
\* first match, -1 when there is none.
findIndexById(arr, id) ==
  LET hits == { i \in DOMAIN arr : arr[i].id = id }
  IN  IF hits = {} THEN -1
      ELSE (CHOOSE i \in hits : \A j \in hits : i <= j) - 1

\* Array.prototype.splice(start, 1): the array without the element at the
\* 0-based index start; a negative start counts from the end of the array.
splice1(arr, start) ==
  LET from == IF start < 0 THEN (IF Len(arr) + start < 0 THEN 0 ELSE Len(arr) + start)
              ELSE (IF start > Len(arr) THEN Len(arr) ELSE start)
  IN  SubSeq(arr, 1, from) \o SubSeq(arr, from + 2, Len(arr))

\* deepCopy(value): a copy equal to the value; the absent marker stays absent.
deepCopy(value) == value

\* A value that may be absent (undefined) is a sequence of at most one element.
Absent == <<>>
Present(x) == <<x>>

\* ------------------------------------------------------------------ isDoneTodoList
\* isDoneTodoList without the length test.
isDoneTodoListNoLength(todoList) ==
  \A i \in DOMAIN todoList.todos : todoList.todos[i].done

\* The same method in the three stores.
isDoneTodoList(todoList) ==
  Len(todoList.todos) > 0 /\ \A i \in DOMAIN todoList.todos : todoList.todos[i].done

hasUndoneTodos(todoList) ==
  \E i \in DOMAIN todoList.todos : ~todoList.todos[i].done

\* ------------------------------------------------------------------ results
\* What a call did: the store's contents after it, what it returned (res), the
\* value returned when it is data (out) and the error thrown (err, as words).
Ret(st, res, out, err) == [st |-> st, res |-> res, out |-> out, err |-> err]

NoError == <<>>

\* Reading or writing a property of undefined.
TypeError == << "TypeError:", "Cannot", "read", "properties", "of", "undefined" >>

Bool(b) == IF b THEN "true" ELSE "false"

\* ------------------------------------------------------------------ session store
\* nextId(): a previously unused integer.
nextId(currentId) == currentId + 1

\* The seed data: one list holding one todo that is not done.
SeedData ==
  << [id |-> 1, title |-> <<66>>,
      todos |-> << [id |-> 2, title |-> <<97>>, done |-> FALSE] >>] >>

\* The identifiers the seed data uses.
SeedIds == 2

\* new SessionPersistence(session) on a session that holds no todo lists.
SessionInit == [todoLists |-> deepCopy(SeedData), currentId |-> SeedIds]

_findTodoList(S, todoListId) ==
  LET idx == findIndexById(S.todoLists, todoListId)
  IN  IF idx = -1 THEN Absent ELSE Present(S.todoLists[idx + 1])

_findTodo(S, todoListId, todoId) ==
  LET todoList == _findTodoList(S, todoListId)
  IN  IF todoList = Absent THEN Absent
      ELSE LET idx == findIndexById(todoList[1].todos, todoId)
           IN  IF idx = -1 THEN Absent ELSE Present(todoList[1].todos[idx + 1])

SessionLoadTodoList(S, todoListId) ==
  LET found == deepCopy(_findTodoList(S, todoListId))
  IN  Ret(S, IF found = Absent THEN "undefined" ELSE "value", found, NoError)

SessionLoadTodo(S, todoListId, todoId) ==
  LET found == deepCopy(_findTodo(S, todoListId, todoId))
  IN  Ret(S, IF found = Absent THEN "undefined" ELSE "value", found, NoError)

SessionSortedTodoLists(S) ==
  LET todoLists == deepCopy(S.todoLists)
      undone    == SelectSeq(todoLists, LAMBDA l : ~isDoneTodoList(l))
      done      == SelectSeq(todoLists, LAMBDA l : isDoneTodoList(l))
  IN  Ret(S, "value", sortTodoItems(undone, done), NoError)

\* sortedTodos(todoList) reads the todos of the list object it is given.
SessionSortedTodos(S, todoList) ==
  LET todos  == deepCopy(todoList.todos)
      done   == SelectSeq(todos, LAMBDA t : t.done)
      undone == SelectSeq(todos, LAMBDA t : ~t.done)
  IN  Ret(S, "value", sortTodoItems(undone, done), NoError)

\* existsTodoListTitle comparing without regard to case.
SessionExistsTodoListTitleAnyCase(S, title) ==
  Ret(S, Bool(\E i \in DOMAIN S.todoLists :
                 toLowerCase(S.todoLists[i].title) = toLowerCase(title)),
      Absent, NoError)

\* existsTodoListTitle that finds no title.
SessionExistsTodoListTitleNever(S, title) == Ret(S, "false", Absent, NoError)

SessionExistsTodoListTitle(S, title) ==
  Ret(S, Bool(\E i \in DOMAIN S.todoLists : S.todoLists[i].title = title),
      Absent, NoError)

\* deleteTodoList that removes the list but not at the index found.
SessionDeleteTodoListWrongIndex(S, todoListId) ==
  LET todoListIndex == findIndexById(S.todoLists, todoListId)
  IN  IF todoListIndex = -1 THEN Ret(S, "false", Absent, NoError)
      ELSE Ret([S EXCEPT !.todoLists = splice1(@, 0)], "true", Absent, NoError)

SessionDeleteTodoList(S, todoListId) ==
  LET todoListIndex == findIndexById(S.todoLists, todoListId)
  IN  IF todoListIndex = -1 THEN Ret(S, "false", Absent, NoError)
      ELSE Ret([S EXCEPT !.todoLists = splice1(@, todoListIndex)],
               "true", Absent, NoError)

SessionCreatedTodoList(S, todoListTitle) ==
  LET id          == nextId(S.currentId)
      newTodoList == [id |-> id, title |-> todoListTitle, todos |-> <<>>]
  IN  Ret([todoLists |-> Append(S.todoLists, newTodoList), currentId |-> id],
          "true", Absent, NoError)

\* toggleTodo that marks the todo done instead of negating the flag.
SessionToggleTodoSetsDone(S, todoListId, todoId) ==
  LET li == findIndexById(S.todoLists, todoListId)
      ti == IF li = -1 THEN -1
            ELSE findIndexById(S.todoLists[li + 1].todos, todoId)
  IN  IF ti = -1 THEN Ret(S, "throw", Absent, TypeError)
      ELSE Ret([S EXCEPT !.todoLists[li + 1].todos[ti + 1].done = TRUE],
               "undefined", Absent, NoError)

\* todo is undefined when the list or the todo is missing, and "todo.done"
\* then throws; the method has no return statement.
SessionToggleTodo(S, todoListId, todoId) ==
  LET li == findIndexById(S.todoLists, todoListId)
      ti == IF li = -1 THEN -1
            ELSE findIndexById(S.todoLists[li + 1].todos, todoId)
  IN  IF ti = -1 THEN Ret(S, "throw", Absent, TypeError)
      ELSE Ret([S EXCEPT !.todoLists[li + 1].todos[ti + 1].done = ~@],
               "undefined", Absent, NoError)

\* "!todoIndex" is true for index 0 and false for -1; splice(-1, 1) removes
\* the last element; the method has no return statement.
SessionDeleteTodo(S, todoListId, todoId) ==
  LET li == findIndexById(S.todoLists, todoListId)
  IN  IF li = -1 THEN Ret(S, "undefined", Absent, NoError)
      ELSE LET todoIndex == findIndexById(S.todoLists[li + 1].todos, todoId)
           IN  IF todoIndex = 0 THEN Ret(S, "undefined", Absent, NoError)
               ELSE Ret([S EXCEPT !.todoLists[li + 1].todos = splice1(@, todoIndex)],
                        "undefined", Absent, NoError)

SessionAddedTodo(S, todoListId, todoTitle) ==
  LET li == findIndexById(S.todoLists, todoListId)
  IN  IF li = -1 THEN Ret(S, "false", Absent, NoError)
      ELSE LET id == nextId(S.currentId)
           IN  Ret([todoLists |->
                      [S.todoLists EXCEPT ![li + 1].todos =
                         Append(@, [id |-> id, title |-> todoTitle, done |-> FALSE])],
                    currentId |-> id],
                   "true", Absent, NoError)

SessionCompleteAllTodos(S, todoListId) ==
  LET li == findIndexById(S.todoLists, todoListId)
  IN  IF li = -1 THEN Ret(S, "false", Absent, NoError)
      ELSE Ret([S EXCEPT !.todoLists[li + 1].todos =
                  [i \in DOMAIN @ |-> [@[i] EXCEPT !.done = TRUE]]],
               "true", Absent, NoError)

SessionSetTodoListTitle(S, todoListId, todoListTitle) ==
  LET li == findIndexById(S.todoLists, todoListId)
  IN  IF li = -1 THEN Ret(S, "false", Absent, NoError)
      ELSE Ret([S EXCEPT !.todoLists[li + 1].title = todoListTitle],
               "true", Absent, NoError)

\* ------------------------------------------------------------------ database
\* The database is DB = [todolists, todos, lseq, tseq]: the rows of the two
\* tables in their physical order, and the values of the two id sequences.
\*   todolists(id PK, title, username)     title unique per owner
\*   todos(id PK, title, done, todolist_id FK -> todolists.id ON DELETE CASCADE,
\*         username)
\* A query without ORDER BY returns the rows in physical order, and ORDER BY
\* keeps that order among rows whose keys are equal.
DBInit == [todolists |-> <<>>, todos |-> <<>>, lseq |-> 0, tseq |-> 0]

\* The messages of the errors a query is rejected with.
UniqueViolation ==
  << "error:", "duplicate", "key", "value", "violates", "unique", "constraint",
     "todolists_title_key" >>

ForeignKeyViolation ==
  << "error:", "insert", "or", "update", "on", "table", "todos", "violates",
     "foreign", "key", "constraint", "todos_todolist_id_fkey" >>

BindError ==
  << "error:", "bind", "message", "supplies", "2", "parameters,", "but", "prepared",
     "statement", "requires", "3" >>

ConnectionError == << "Error:", "connect", "ECONNREFUSED" >>

\* The outcome of one statement: the database after it, the rows returned,
\* the row count, and the error it was rejected with (NoError when it ran).
Q(db, rows, rowCount, error) ==
  [db |-> db, rows |-> rows, rowCount |-> rowCount, error |-> error]

\* ORDER BY LOWER(title) ASC
RECURSIVE OrderByLowerTitle(_)
OrderByLowerTitle(rows) ==
  IF rows = <<>> THEN <<>>
  ELSE LET rest == OrderByLowerTitle(SubSeq(rows, 1, Len(rows) - 1))
           x    == rows[Len(rows)]
           k    == Cardinality({ i \in DOMAIN rest :
                      ~StrLess(toLowerCase(x.title), toLowerCase(rest[i].title)) })
       IN  SubSeq(rest, 1, k) \o <<x>> \o SubSeq(rest, k + 1, Len(rest))

\* ORDER BY done, LOWER(title) ASC: false sorts before true.
OrderByDoneLowerTitle(rows) ==
  OrderByLowerTitle(SelectSeq(rows, LAMBDA r : ~r.done))
    \o OrderByLowerTitle(SelectSeq(rows, LAMBDA r : r.done))

\* INSERT INTO todolists (title, username): the id is drawn from the sequence
\* before the unique constraint is checked.
InsertTodoList(db, title, username) ==
  LET id   == db.lseq + 1
      db1  == [db EXCEPT !.lseq = id]
      dup  == \E i \in DOMAIN db.todolists :
                db.todolists[i].title = title /\ db.todolists[i].username = username
  IN  IF dup THEN Q(db1, <<>>, 0, UniqueViolation)
      ELSE Q([db1 EXCEPT !.todolists =
                Append(@, [id |-> id, title |-> title, username |-> username])],
             <<>>, 1, NoError)

\* INSERT INTO todos (title, todolist_id, username): done defaults to false;
\* the list row the foreign key names must exist.
InsertTodo(db, title, todolist_id, username) ==
  LET id   == db.tseq + 1
      db1  == [db EXCEPT !.tseq = id]
      ok   == \E i \in DOMAIN db.todolists : db.todolists[i].id = todolist_id
  IN  IF ~ok THEN Q(db1, <<>>, 0, ForeignKeyViolation)
      ELSE Q([db1 EXCEPT !.todos =
                Append(@, [id |-> id, title |-> title, done |-> FALSE,
                           todolist_id |-> todolist_id, username |-> username])],
             <<>>, 1, NoError)

\* DELETE FROM todolists WHERE id = $1 [AND username = $2], with the cascade
\* to the todos of the deleted lists. anyUser: the single-user statement.
DeleteTodoListRows(db, id, username, anyUser) ==
  LET hit(r) == r.id = id /\ (anyUser \/ r.username = username)
      gone   == { db.todolists[i].id : i \in { j \in DOMAIN db.todolists :
                                                 hit(db.todolists[j]) } }
  IN  Q([db EXCEPT !.todolists = SelectSeq(@, LAMBDA r : ~hit(r)),
                   !.todos     = SelectSeq(@, LAMBDA t : t.todolist_id \notin gone)],
        <<>>, Cardinality(gone), NoError)

\* UPDATE todolists SET title = $1 WHERE id = $2 [AND username = $3]
UpdateTodoListTitle(db, title, id, username, anyUser) ==
  LET hit(r) == r.id = id /\ (anyUser \/ r.username = username)
      n      == Cardinality({ i \in DOMAIN db.todolists : hit(db.todolists[i]) })
      dup    == \E i, j \in DOMAIN db.todolists :
                  /\ hit(db.todolists[i]) /\ ~hit(db.todolists[j])
                  /\ db.todolists[j].title = title
                  /\ db.todolists[j].username = db.todolists[i].username
  IN  IF dup THEN Q(db, <<>>, 0, UniqueViolation)
      ELSE Q([db EXCEPT !.todolists =
                [i \in DOMAIN @ |-> IF hit(@[i]) THEN [@[i] EXCEPT !.title = title]
                                    ELSE @[i]]],
             <<>>, n, NoError)

\* The rows of the statements' WHERE clauses.
TodoListsWhere(db, id, username, anyUser) ==
  SelectSeq(db.todolists, LAMBDA r : r.id = id /\ (anyUser \/ r.username = username))

TodosOfList(db, todolist_id, username, anyUser) ==
  SelectSeq(db.todos,
            LAMBDA t : t.todolist_id = todolist_id /\ (anyUser \/ t.username = username))

TodosWhere(db, todolist_id, id, username, anyUser) ==
  SelectSeq(db.todos,
            LAMBDA t : /\ t.todolist_id = todolist_id /\ t.id = id
                       /\ (anyUser \/ t.username = username))

\* /duplicate key value violates unique constraint/.test(String(error))
isUniqueConstraintViolation(error) ==
  LET pat == << "duplicate", "key", "value", "violates", "unique", "constraint" >>
  IN  \E i \in 0..(Len(error) - Len(pat)) : SubSeq(error, i + 1, i + Len(pat)) = pat

\* UPDATE todos SET done = NOT done WHERE todolist_id = $1 AND id = $2 [AND username = $3]
UpdateTodoStatus(db, todolist_id, id, username, anyUser) ==
  LET hit(t) == /\ t.todolist_id = todolist_id /\ t.id = id
                /\ (anyUser \/ t.username = username)
  IN  Q([db EXCEPT !.todos =
           [i \in DOMAIN @ |-> IF hit(@[i]) THEN [@[i] EXCEPT !.done = ~@] ELSE @[i]]],
        <<>>, Cardinality({ i \in DOMAIN db.todos : hit(db.todos[i]) }), NoError)

\* MARK_ALL_COMPLETE without its WHERE clause on the list.
MarkAllCompleteEveryList(db, todolist_id, username, anyUser) ==
  LET hit(t) == anyUser \/ t.username = username
  IN  Q([db EXCEPT !.todos =
           [i \in DOMAIN @ |-> IF hit(@[i]) THEN [@[i] EXCEPT !.done = TRUE] ELSE @[i]]],
        <<>>, Cardinality({ i \in DOMAIN db.todos : hit(db.todos[i]) }), NoError)

\* UPDATE todos SET done = TRUE WHERE todolist_id = $1 [AND username = $2]
MarkAllComplete(db, todolist_id, username, anyUser) ==
  LET hit(t) == t.todolist_id = todolist_id /\ (anyUser \/ t.username = username)
  IN  Q([db EXCEPT !.todos =
           [i \in DOMAIN @ |-> IF hit(@[i]) THEN [@[i] EXCEPT !.done = TRUE] ELSE @[i]]],
        <<>>, Cardinality({ i \in DOMAIN db.todos : hit(db.todos[i]) }), NoError)

\* DELETE FROM todos WHERE todolist_id = $1 AND id = $2
DeleteTodoRows(db, todolist_id, id) ==
  LET hit(t) == t.todolist_id = todolist_id /\ t.id = id
  IN  Q([db EXCEPT !.todos = SelectSeq(@, LAMBDA t : ~hit(t))],
        <<>>, Cardinality({ i \in DOMAIN db.todos : hit(db.todos[i]) }), NoError)

\* A list row with the todos joined to it.
WithTodos(row, todos) ==
  [id |-> row.id, title |-> row.title, username |-> row.username, todos |-> todos]

\* _partitionTodoLists: the same method in both relational variants.
_partitionTodoLists(todoLists) ==
  LET undone == SelectSeq(todoLists, LAMBDA l : ~isDoneTodoList(l))
      done   == SelectSeq(todoLists, LAMBDA l : isDoneTodoList(l))
  IN  undone \o done

\* ------------------------------------------------------------------ PgPersistence, multi-user
PgLoadTodoList(db, username, todoListId) ==
  LET todoListResult == TodoListsWhere(db, todoListId, username, FALSE)
      todosResult    == TodosOfList(db, todoListId, username, FALSE)
  IN  IF todoListResult = <<>> THEN Ret(db, "undefined", Absent, NoError)
      ELSE Ret(db, "value", Present(WithTodos(todoListResult[1], todosResult)), NoError)

PgLoadTodo(db, username, todoListId, todoId) ==
  LET result == TodosWhere(db, todoListId, todoId, username, FALSE)
  IN  IF result = <<>> THEN Ret(db, "undefined", Absent, NoError)
      ELSE Ret(db, "value", Present(result[1]), NoError)

\* sortedTodoLists that forgets the ORDER BY.
PgSortedTodoListsUnordered(db, username) ==
  LET allTodoLists == SelectSeq(db.todolists, LAMBDA r : r.username = username)
      allTodos     == SelectSeq(db.todos, LAMBDA t : t.username = username)
      joined       == [i \in DOMAIN allTodoLists |->
                         WithTodos(allTodoLists[i],
                                   SelectSeq(allTodos,
                                     LAMBDA t : t.todolist_id = allTodoLists[i].id))]
  IN  Ret(db, "value", _partitionTodoLists(joined), NoError)

PgSortedTodoLists(db, username) ==
  LET allTodoLists == OrderByLowerTitle(
                        SelectSeq(db.todolists, LAMBDA r : r.username = username))
      allTodos     == SelectSeq(db.todos, LAMBDA t : t.username = username)
      joined       == [i \in DOMAIN allTodoLists |->
                         WithTodos(allTodoLists[i],
                                   SelectSeq(allTodos,
                                     LAMBDA t : t.todolist_id = allTodoLists[i].id))]
  IN  Ret(db, "value", _partitionTodoLists(joined), NoError)

\* sortedTodos(todoList) queries the rows of todoList.id.
PgSortedTodos(db, username, todoList) ==
  Ret(db, "value",
      OrderByDoneLowerTitle(TodosOfList(db, todoList.id, username, FALSE)), NoError)

PgExistsTodoListTitle(db, username, title) ==
  LET result == SelectSeq(db.todolists,
                          LAMBDA r : r.title = title /\ r.username = username)
  IN  Ret(db, Bool(Len(result) > 0), Absent, NoError)

\* deleteTodoList with the single-user DELETE, which names no owner.
PgDeleteTodoListAnyOwner(db, username, todoListId) ==
  LET deleteResult  == DeleteTodoListRows(db, todoListId, username, TRUE)
      confirmResult == TodosOfList(deleteResult.db, todoListId, username, FALSE)
  IN  Ret(deleteResult.db,
          Bool(deleteResult.rowCount > 0 /\ Len(confirmResult) = 0), Absent, NoError)

PgDeleteTodoList(db, username, todoListId) ==
  LET deleteResult  == DeleteTodoListRows(db, todoListId, username, FALSE)
      confirmResult == TodosOfList(deleteResult.db, todoListId, username, FALSE)
  IN  Ret(deleteResult.db,
          Bool(deleteResult.rowCount > 0 /\ Len(confirmResult) = 0), Absent, NoError)

\* createdTodoList that reports every rejected insert as false.
PgCreatedTodoListCatchAll(db, username, todoListTitle, fault) ==
  IF fault THEN Ret(db, "false", Absent, NoError)
  ELSE LET result == InsertTodoList(db, todoListTitle, username)
       IN  IF result.error # NoError THEN Ret(result.db, "false", Absent, NoError)
           ELSE Ret(result.db, Bool(result.rowCount > 0), Absent, NoError)

\* fault: the query is rejected for a reason other than a constraint (the
\* connection fails) and nothing is written.
PgCreatedTodoList(db, username, todoListTitle, fault) ==
  LET result == IF fault THEN Q(db, <<>>, 0, ConnectionError)
                ELSE InsertTodoList(db, todoListTitle, username)
  IN  IF result.error # NoError
      THEN IF isUniqueConstraintViolation(result.error)
           THEN Ret(result.db, "false", Absent, NoError)
           ELSE Ret(result.db, "throw", Absent, result.error)
      ELSE Ret(result.db, Bool(result.rowCount > 0), Absent, NoError)

PgToggleTodo(db, username, todoListId, todoId) ==
  LET result == UpdateTodoStatus(db, todoListId, todoId, username, FALSE)
  IN  Ret(result.db, Bool(result.rowCount > 0), Absent, NoError)

\* The statement has three placeholders and is given two values: the query is
\* rejected before it runs.
PgDeleteTodo(db, username, todoListId, todoId) ==
  Ret(db, "throw", Absent, BindError)

PgAddedTodo(db, username, todoListId, todoTitle) ==
  LET result == InsertTodo(db, todoTitle, todoListId, username)
  IN  IF result.error # NoError THEN Ret(result.db, "throw", Absent, result.error)
      ELSE Ret(result.db, Bool(result.rowCount = 1), Absent, NoError)

\* The UPDATE and the SELECT are issued together; the SELECT counts the same
\* rows before and after the UPDATE.
PgCompleteAllTodos(db, username, todoListId) ==
  LET markCompleteResult == MarkAllComplete(db, todoListId, username, FALSE)
      numTodosResult     == TodosOfList(db, todoListId, username, FALSE)
  IN  Ret(markCompleteResult.db,
          Bool(markCompleteResult.rowCount = Len(numTodosResult)), Absent, NoError)

\* setTodoListTitle with the single-user UPDATE, which names no owner.
PgSetTodoListTitleAnyOwner(db, username, todoListId, todoListTitle) ==
  LET result == UpdateTodoListTitle(db, todoListTitle, todoListId, username, TRUE)
  IN  IF result.error # NoError THEN Ret(result.db, "throw", Absent, result.error)
      ELSE Ret(result.db, Bool(result.rowCount > 0), Absent, NoError)

PgSetTodoListTitle(db, username, todoListId, todoListTitle) ==
  LET result == UpdateTodoListTitle(db, todoListTitle, todoListId, username, FALSE)
  IN  IF result.error # NoError THEN Ret(result.db, "throw", Absent, result.error)
      ELSE Ret(result.db, Bool(result.rowCount > 0), Absent, NoError)

\* ------------------------------------------------------------------ PgPersistence, single-user
\* The single-user statements carry no username: the rows are written with
\* NoUser and every WHERE clause matches any owner.
Pg1LoadTodoList(db, todoListId) ==
  LET todoListResult == TodoListsWhere(db, todoListId, NoUser, TRUE)
      todosResult    == TodosOfList(db, todoListId, NoUser, TRUE)
  IN  IF todoListResult = <<>> THEN Ret(db, "undefined", Absent, NoError)
      ELSE Ret(db, "value", Present(WithTodos(todoListResult[1], todosResult)), NoError)

Pg1LoadTodo(db, todoListId, todoId) ==
  LET result == TodosWhere(db, todoListId, todoId, NoUser, TRUE)
  IN  IF result = <<>> THEN Ret(db, "undefined", Absent, NoError)
      ELSE Ret(db, "value", Present(result[1]), NoError)

\* One FIND_TODOS query for each list row.
Pg1SortedTodoLists(db) ==
  LET todoLists == OrderByLowerTitle(db.todolists)
      joined    == [idx \in DOMAIN todoLists |->
                      WithTodos(todoLists[idx],
                                TodosOfList(db, todoLists[idx].id, NoUser, TRUE))]
  IN  Ret(db, "value", _partitionTodoLists(joined), NoError)

Pg1SortedTodos(db, todoList) ==
  Ret(db, "value",
      OrderByDoneLowerTitle(TodosOfList(db, todoList.id, NoUser, TRUE)), NoError)

Pg1ExistsTodoListTitle(db, title) ==
  LET result == SelectSeq(db.todolists, LAMBDA r : r.title = title)
  IN  Ret(db, Bool(Len(result) > 0), Absent, NoError)

\* The confirmation repeats the DELETE.
Pg1DeleteTodoList(db, todoListId) ==
  LET deleteResult  == DeleteTodoListRows(db, todoListId, NoUser, TRUE)
      confirmResult == DeleteTodoListRows(deleteResult.db, todoListId, NoUser, TRUE)
  IN  Ret(confirmResult.db,
          Bool(deleteResult.rowCount > 0 /\ confirmResult.rowCount = 0),
          Absent, NoError)

Pg1CreatedTodoList(db, todoListTitle, fault) ==
  LET result == IF fault THEN Q(db, <<>>, 0, ConnectionError)
                ELSE InsertTodoList(db, todoListTitle, NoUser)
  IN  IF result.error # NoError
      THEN IF isUniqueConstraintViolation(result.error)
           THEN Ret(result.db, "false", Absent, NoError)
           ELSE Ret(result.db, "throw", Absent, result.error)
      ELSE Ret(result.db, Bool(result.rowCount > 0), Absent, NoError)

Pg1ToggleTodo(db, todoListId, todoId) ==
  LET result == UpdateTodoStatus(db, todoListId, todoId, NoUser, TRUE)
  IN  Ret(result.db, Bool(result.rowCount > 0), Absent, NoError)

Pg1DeleteTodo(db, todoListId, todoId) ==
  LET result == DeleteTodoRows(db, todoListId, todoId)
  IN  Ret(result.db, Bool(result.rowCount > 0), Absent, NoError)

Pg1AddedTodo(db, todoListId, todoTitle) ==
  LET result == InsertTodo(db, todoTitle, todoListId, NoUser)
  IN  IF result.error # NoError THEN Ret(result.db, "throw", Absent, result.error)
      ELSE Ret(result.db, Bool(result.rowCount = 1), Absent, NoError)

Pg1CompleteAllTodos(db, todoListId) ==
  LET markCompleteResult == MarkAllComplete(db, todoListId, NoUser, TRUE)
      numTodosResult     == TodosOfList(db, todoListId, NoUser, TRUE)
  IN  Ret(markCompleteResult.db,
          Bool(markCompleteResult.rowCount = Len(numTodosResult)), Absent, NoError)

Pg1SetTodoListTitle(db, todoListId, todoListTitle) ==
  LET result == UpdateTodoListTitle(db, todoListTitle, todoListId, NoUser, TRUE)
  IN  IF result.error # NoError THEN Ret(result.db, "throw", Absent, result.error)
      ELSE Ret(result.db, Bool(result.rowCount > 0), Absent, NoError)

\* ------------------------------------------------------------------ state
\* variant : the store implementation the HTTP layer instantiates
\* store   : the store's contents: for "session" the session's todoLists and the
\*           id generator, for "pg1" and "pg" the database
\* last    : the last call made on the store: its method, arguments and result
\* pre     : the store's contents before the last call
\* reqs    : the create-list and edit-title requests being handled: how far
\*           each route handler has come, and what it answered
\* users   : the rows of the users table
\* heap     : the objects that hold todo lists in the process: the SeedData
\*            module object, the array each session owns, and nextId's counter
\* sessions : the session objects: todoLists (a reference into the heap, or
\*            absent), signedIn and username
\* inst     : the SessionPersistence instance of the request being handled and
\*            the values its method returned to the caller
\* calls    : the store calls in progress on the database, statement by statement
VARIABLES variant, store, last, pre, reqs, users, heap, sessions, inst, calls

vars == << variant, store, last, pre, reqs, users, heap, sessions, inst, calls >>

\* The variables of the session objects, and those the one-call-per-request
\* specification leaves as they are.
sessionVars == << heap, sessions, inst >>
asideVars == << reqs, users, sessionVars, calls >>

NoTitle == <<>>
NoId == 0

\* An identifier no generator hands out within the bounds.
NoSuchId == SeedIds + MaxId + 1

\* The owners a store instance may be bound to.
Owners == IF variant = "pg" THEN Users ELSE { NoUser }

StoreInit(v) == IF v = "session" THEN SessionInit ELSE DBInit

\* The list objects and the number of todos held by the store.
ListCount(v, st) == IF v = "session" THEN Len(st.todoLists) ELSE Len(st.todolists)

RECURSIVE SumLen(_)
SumLen(ls) == IF ls = <<>> THEN 0 ELSE Len(ls[1].todos) + SumLen(Tail(ls))

\* The list ids and todo ids a call may name: every id in the store, whoever
\* owns it, and one that names nothing.
ListIds(v, st) ==
  (IF v = "session" THEN { st.todoLists[i].id : i \in DOMAIN st.todoLists }
   ELSE { st.todolists[i].id : i \in DOMAIN st.todolists }) \cup { NoSuchId }

TodoIds(v, st) ==
  (IF v = "session"
   THEN UNION { { st.todoLists[i].todos[j].id : j \in DOMAIN st.todoLists[i].todos } :
                i \in DOMAIN st.todoLists }
   ELSE { st.todos[i].id : i \in DOMAIN st.todos }) \cup { NoSuchId }

TodoCount(v, st) == IF v = "session" THEN SumLen(st.todoLists) ELSE Len(st.todos)

\* The identifiers the list generator and the todo generator have handed out.
ListIdsUsed(v, st) == IF v = "session" THEN st.currentId - SeedIds ELSE st.lseq
TodoIdsUsed(v, st) == IF v = "session" THEN st.currentId - SeedIds ELSE st.tseq

\* ------------------------------------------------------------------ the store contract
loadTodoList(v, st, u, todoListId) ==
  CASE v = "session" -> SessionLoadTodoList(st, todoListId)
    [] v = "pg1"     -> Pg1LoadTodoList(st, todoListId)
    [] v = "pg"      -> PgLoadTodoList(st, u, todoListId)

loadTodo(v, st, u, todoListId, todoId) ==
  CASE v = "session" -> SessionLoadTodo(st, todoListId, todoId)
    [] v = "pg1"     -> Pg1LoadTodo(st, todoListId, todoId)
    [] v = "pg"      -> PgLoadTodo(st, u, todoListId, todoId)

sortedTodoLists(v, st, u) ==
  CASE v = "session" -> SessionSortedTodoLists(st)
    [] v = "pg1"     -> Pg1SortedTodoLists(st)
    [] v = "pg"      -> PgSortedTodoLists(st, u)

sortedTodos(v, st, u, todoList) ==
  CASE v = "session" -> SessionSortedTodos(st, todoList)
    [] v = "pg1"     -> Pg1SortedTodos(st, todoList)
    [] v = "pg"      -> PgSortedTodos(st, u, todoList)

existsTodoListTitle(v, st, u, title) ==
  CASE v = "session" -> SessionExistsTodoListTitle(st, title)
    [] v = "pg1"     -> Pg1ExistsTodoListTitle(st, title)
    [] v = "pg"      -> PgExistsTodoListTitle(st, u, title)

deleteTodoList(v, st, u, todoListId) ==
  CASE v = "session" -> SessionDeleteTodoList(st, todoListId)
    [] v = "pg1"     -> Pg1DeleteTodoList(st, todoListId)
    [] v = "pg"      -> PgDeleteTodoList(st, u, todoListId)

\* The session store makes no query, so no query of it can fail.
createdTodoList(v, st, u, title, fault) ==
  CASE v = "session" -> SessionCreatedTodoList(st, title)
    [] v = "pg1"     -> Pg1CreatedTodoList(st, title, fault)
    [] v = "pg"      -> PgCreatedTodoList(st, u, title, fault)

toggleTodo(v, st, u, todoListId, todoId) ==
  CASE v = "session" -> SessionToggleTodo(st, todoListId, todoId)
    [] v = "pg1"     -> Pg1ToggleTodo(st, todoListId, todoId)
    [] v = "pg"      -> PgToggleTodo(st, u, todoListId, todoId)

deleteTodo(v, st, u, todoListId, todoId) ==
  CASE v = "session" -> SessionDeleteTodo(st, todoListId, todoId)
    [] v = "pg1"     -> Pg1DeleteTodo(st, todoListId, todoId)
    [] v = "pg"      -> PgDeleteTodo(st, u, todoListId, todoId)

addedTodo(v, st, u, todoListId, title) ==
  CASE v = "session" -> SessionAddedTodo(st, todoListId, title)
    [] v = "pg1"     -> Pg1AddedTodo(st, todoListId, title)
    [] v = "pg"      -> PgAddedTodo(st, u, todoListId, title)

completeAllTodos(v, st, u, todoListId) ==
  CASE v = "session" -> SessionCompleteAllTodos(st, todoListId)
    [] v = "pg1"     -> Pg1CompleteAllTodos(st, todoListId)
    [] v = "pg"      -> PgCompleteAllTodos(st, u, todoListId)

setTodoListTitle(v, st, u, todoListId, title) ==
  CASE v = "session" -> SessionSetTodoListTitle(st, todoListId, title)
    [] v = "pg1"     -> Pg1SetTodoListTitle(st, todoListId, title)
    [] v = "pg"      -> PgSetTodoListTitle(st, u, todoListId, title)

\* ------------------------------------------------------------------ actions
\* A request constructs a store instance and calls method op on it with the
\* given arguments; r is the call's outcome.
Call(op, u, todoListId, todoId, title, fault, r) ==
  /\ last.op = "new"
  /\ pre' = store
  /\ store' = r.st
  /\ last' = [op |-> op, user |-> u, listId |-> todoListId, todoId |-> todoId,
              title |-> title, fault |-> fault,
              res |-> r.res, out |-> r.out, err |-> r.err]
  /\ UNCHANGED << variant, asideVars >>

NoCall == [op |-> "new", user |-> NoUser, listId |-> NoId, todoId |-> NoId,
           title |-> NoTitle, fault |-> FALSE,
           res |-> "undefined", out |-> Absent, err |-> NoError]

\* The requests the HTTP layer handles at one time.
Reqs == { "r1", "r2" }

\* A request slot in which no request is being handled.
NoRequest == [pc |-> "idle", route |-> "none", user |-> NoUser, listId |-> NoId,
              title |-> NoTitle, answer |-> "none"]

\* The users table is not written by the store.
NoUsers == << >>

\* The sessions of the HTTP layer.
SessionIds == { "s1", "s2" }

\* The heap before any session has lists: the SeedData object, no array owned
\* by a session, and the id generator past the ids of the seed data.
HeapInit ==
  [SeedData |-> SeedData, own |-> [s \in SessionIds |-> << >>], currentId |-> SeedIds]

\* A new session: no todoLists property, not signed in.
NewSession == [todoLists |-> Absent, signedIn |-> FALSE, username |-> NoUser]

\* No request is being handled: no store instance.
NoInstance == [session |-> "none", todoLists |-> "none", seeded |-> FALSE,
               saw |-> << >>, returned |-> << >>, mutated |-> FALSE]

\* No store call is in progress.
NoStatements == [pc |-> "idle", op |-> "none", user |-> NoUser, listId |-> NoId,
                 existed |-> FALSE, deleted |-> Absent, marked |-> Absent,
                 counted |-> Absent, res |-> "none"]

\* The state the process starts in.
Started ==
  /\ reqs = [r \in Reqs |-> NoRequest]
  /\ heap = HeapInit
  /\ sessions = [s \in SessionIds |-> NewSession]
  /\ inst = NoInstance
  /\ calls = [r \in Reqs |-> NoStatements]

Init ==
  /\ variant \in Variants
  /\ store = StoreInit(variant)
  /\ pre = store
  /\ last = NoCall
  /\ users = NoUsers
  /\ Started

LoadTodoList ==
  \E u \in Owners, l \in ListIds(variant, store) :
    Call("loadTodoList", u, l, NoId, NoTitle, FALSE, loadTodoList(variant, store, u, l))

LoadTodo ==
  \E u \in Owners, l \in ListIds(variant, store), t \in TodoIds(variant, store) :
    Call("loadTodo", u, l, t, NoTitle, FALSE, loadTodo(variant, store, u, l, t))

\* isDoneTodoList(todoList) on a list that loadTodoList returned.
IsDoneTodoList ==
  \E u \in Owners, l \in ListIds(variant, store) :
    LET loaded == loadTodoList(variant, store, u, l)
    IN  /\ loaded.out # Absent
        /\ Call("isDoneTodoList", u, l, NoId, NoTitle, FALSE,
                Ret(store, Bool(isDoneTodoList(loaded.out[1])), loaded.out, NoError))

HasUndoneTodos ==
  \E u \in Owners, l \in ListIds(variant, store) :
    LET loaded == loadTodoList(variant, store, u, l)
    IN  /\ loaded.out # Absent
        /\ Call("hasUndoneTodos", u, l, NoId, NoTitle, FALSE,
                Ret(store, Bool(hasUndoneTodos(loaded.out[1])), loaded.out, NoError))

SortedTodoLists ==
  \E u \in Owners :
    Call("sortedTodoLists", u, NoId, NoId, NoTitle, FALSE,
         sortedTodoLists(variant, store, u))

\* sortedTodos(todoList) on a list that loadTodoList returned.
SortedTodos ==
  \E u \in Owners, l \in ListIds(variant, store) :
    LET loaded == loadTodoList(variant, store, u, l)
    IN  /\ loaded.out # Absent
        /\ Call("sortedTodos", u, l, NoId, NoTitle, FALSE,
                sortedTodos(variant, store, u, loaded.out[1]))

ExistsTodoListTitle ==
  \E u \in Owners, title \in QueryTitles :
    Call("existsTodoListTitle", u, NoId, NoId, title, FALSE,
         existsTodoListTitle(variant, store, u, title))

DeleteTodoList ==
  \E u \in Owners, l \in ListIds(variant, store) :
    Call("deleteTodoList", u, l, NoId, NoTitle, FALSE,
         deleteTodoList(variant, store, u, l))

CreatedTodoList ==
  \E u \in Owners, title \in Titles,
     fault \in (IF variant = "session" THEN { FALSE } ELSE BOOLEAN) :
    /\ ListCount(variant, store) < MaxLists
    /\ ListIdsUsed(variant, store) < MaxId
    /\ Call("createdTodoList", u, NoId, NoId, title, fault,
            createdTodoList(variant, store, u, title, fault))

ToggleTodo ==
  \E u \in Owners, l \in ListIds(variant, store), t \in TodoIds(variant, store) :
    Call("toggleTodo", u, l, t, NoTitle, FALSE, toggleTodo(variant, store, u, l, t))

DeleteTodo ==
  \E u \in Owners, l \in ListIds(variant, store), t \in TodoIds(variant, store) :
    Call("deleteTodo", u, l, t, NoTitle, FALSE, deleteTodo(variant, store, u, l, t))

AddedTodo ==
  \E u \in Owners, l \in ListIds(variant, store), title \in TodoTitles :
    /\ TodoCount(variant, store) < MaxTodos
    /\ TodoIdsUsed(variant, store) < MaxId
    /\ Call("addedTodo", u, l, NoId, title, FALSE,
            addedTodo(variant, store, u, l, title))

CompleteAllTodos ==
  \E u \in Owners, l \in ListIds(variant, store) :
    Call("completeAllTodos", u, l, NoId, NoTitle, FALSE,
         completeAllTodos(variant, store, u, l))

SetTodoListTitle ==
  \E u \in Owners, l \in ListIds(variant, store), title \in Titles :
    Call("setTodoListTitle", u, l, NoId, title, FALSE,
         setTodoListTitle(variant, store, u, l, title))

\* The request completes and its store instance is discarded.
Discard ==
  /\ last.op # "new"
  /\ last' = NoCall
  /\ pre' = store
  /\ UNCHANGED << variant, store, asideVars >>

Next ==
  \/ Discard
  \/ LoadTodoList
  \/ LoadTodo
  \/ IsDoneTodoList
  \/ HasUndoneTodos
  \/ SortedTodoLists
  \/ SortedTodos
  \/ ExistsTodoListTitle
  \/ DeleteTodoList
  \/ CreatedTodoList
  \/ ToggleTodo
  \/ DeleteTodo
  \/ AddedTodo
  \/ CompleteAllTodos
  \/ SetTodoListTitle

Spec == Init /\ [][Next]_vars

\* ------------------------------------------------------------------ views for the properties
\* What a caller can tell of a todo.
Core(t) == [id |-> t.id, title |-> t.title, done |-> t.done]

\* The lists of the store in owner u's scope, as [id, title] records.
ScopeLists(v, st, u) ==
  IF v = "session"
  THEN { [id |-> st.todoLists[i].id, title |-> st.todoLists[i].title] :
         i \in DOMAIN st.todoLists }
  ELSE { [id |-> st.todolists[i].id, title |-> st.todolists[i].title] :
         i \in { j \in DOMAIN st.todolists :
                   v = "pg1" \/ st.todolists[j].username = u } }

InScope(v, st, u, id) == \E l \in ScopeLists(v, st, u) : l.id = id

\* The todos of list id in owner u's scope, in stored order.
ScopeTodos(v, st, u, id) ==
  IF v = "session"
  THEN IF \E i \in DOMAIN st.todoLists : st.todoLists[i].id = id
       THEN st.todoLists[CHOOSE i \in DOMAIN st.todoLists : st.todoLists[i].id = id].todos
       ELSE <<>>
  ELSE SelectSeq(st.todos,
                 LAMBDA t : t.todolist_id = id /\ (v = "pg1" \/ t.username = u))

TodoInScope(v, st, u, id, todoId) ==
  /\ InScope(v, st, u, id)
  /\ \E i \in DOMAIN ScopeTodos(v, st, u, id) : ScopeTodos(v, st, u, id)[i].id = todoId

\* Every todo whose parent is list id, whoever owns it.
ChildrenOf(v, st, id) ==
  IF v = "session" THEN { Core(ScopeTodos(v, st, NoUser, id)[i]) :
                          i \in DOMAIN ScopeTodos(v, st, NoUser, id) }
  ELSE { st.todos[i] : i \in { j \in DOMAIN st.todos : st.todos[j].todolist_id = id } }

\* The store without list id and its todos.
Others(v, st, id) ==
  IF v = "session" THEN << SelectSeq(st.todoLists, LAMBDA l : l.id # id), <<>> >>
  ELSE << SelectSeq(st.todolists, LAMBDA r : r.id # id),
          SelectSeq(st.todos, LAMBDA t : t.todolist_id # id) >>

\* The lists and todos of the store, without the id generators.
Contents(v, st) ==
  IF v = "session" THEN << st.todoLists, <<>> >> ELSE << st.todolists, st.todos >>

\* A list is done: it has a todo and none of its todos is not done.
DoneList(l) == Len(l.todos) >= 1 /\ { i \in DOMAIN l.todos : l.todos[i].done = FALSE } = {}

\* seq is in ascending order of lower-cased title.
AscendingByLowerTitle(seq) ==
  \A i, j \in DOMAIN seq :
    i < j => ~StrLess(toLowerCase(seq[j].title), toLowerCase(seq[i].title))

\* Every element of seq that satisfies Second comes after every one that does not.
Partitioned(seq, Second(_)) ==
  \A i, j \in DOMAIN seq : i < j => ~(Second(seq[i]) /\ ~Second(seq[j]))

\* ------------------------------------------------------------------ C1
\* C1: in every store variant isDoneTodoList(L) is true exactly when L.todos is
\* not empty and every todo of it is done; for a list without todos it is false.
ThmC1_IsDoneTodoList ==
  last.op = "isDoneTodoList" =>
    LET L == last.out[1]
    IN  /\ (last.res = "true") <=> DoneList(L)
        /\ last.res \in { "true", "false" }
        /\ L.todos = <<>> => last.res = "false"

\* isDoneTodoList has answered false for a list without todos.
WitC1_EmptyListNotDone ==
  /\ last.op = "isDoneTodoList"
  /\ last.out[1].todos = <<>>
  /\ last.res = "false"

TitleInScope(v, st, u, t) == \E l \in ScopeLists(v, st, u) : l.title = t

\* The title of list id in owner u's scope, and whether no other list of the
\* scope has it.
TitleOf(v, st, u, id) == (CHOOSE l \in ScopeLists(v, st, u) : l.id = id).title

OnlyListTitled(v, st, u, id) ==
  \A l \in ScopeLists(v, st, u) : l.title = TitleOf(v, st, u, id) => l.id = id

\* C4: existsTodoListTitle(t) is true exactly when some list in the owner's
\* scope has the title t as an exact string; it is true right after
\* createdTodoList(t) succeeds, and false once the only list titled t is
\* deleted or renamed.
ThmC4_ExistsTodoListTitle ==
  LET exists(t) == existsTodoListTitle(variant, store, last.user, t).res
  IN  /\ last.op = "existsTodoListTitle" =>
           /\ last.res \in { "true", "false" }
           /\ (last.res = "true") <=> TitleInScope(variant, pre, last.user, last.title)
      /\ (last.op = "createdTodoList" /\ last.res = "true") =>
           exists(last.title) = "true"
      /\ ( /\ last.op = "deleteTodoList" /\ last.res = "true"
           /\ InScope(variant, pre, last.user, last.listId)
           /\ OnlyListTitled(variant, pre, last.user, last.listId) ) =>
           exists(TitleOf(variant, pre, last.user, last.listId)) = "false"
      /\ ( /\ last.op = "setTodoListTitle" /\ last.res = "true"
           /\ InScope(variant, pre, last.user, last.listId)
           /\ OnlyListTitled(variant, pre, last.user, last.listId)
           /\ TitleOf(variant, pre, last.user, last.listId) # last.title ) =>
           /\ exists(TitleOf(variant, pre, last.user, last.listId)) = "false"
           /\ exists(last.title) = "true"

\* existsTodoListTitle("A") has answered false while a list titled "a" is in
\* the owner's scope.
WitC4_OtherCaseNotFound ==
  /\ last.op = "existsTodoListTitle"
  /\ last.title = <<65>>
  /\ last.res = "false"
  /\ TitleInScope(variant, pre, last.user, <<97>>)

ThmC6_DeleteTodoListExisting ==
  (last.op = "deleteTodoList" /\ InScope(variant, pre, last.user, last.listId)) =>
    /\ last.res = "true"
    /\ loadTodoList(variant, store, last.user, last.listId).res = "undefined"
    /\ loadTodoList(variant, store, last.user, last.listId).out = Absent
    /\ ~InScope(variant, store, last.user, last.listId)
    /\ ChildrenOf(variant, store, last.listId) = {}
    /\ Others(variant, store, last.listId) = Others(variant, pre, last.listId)

\* deleteTodoList has deleted a list that held a todo while another list that
\* holds a todo stays.
WitC6_DeletedWithTodos ==
  /\ last.op = "deleteTodoList"
  /\ last.res = "true"
  /\ ChildrenOf(variant, pre, last.listId) # {}
  /\ \E l \in ListIds(variant, store) : ChildrenOf(variant, store, l) # {}

\* ------------------------------------------------------------------ C7
\* C7: in every store variant deleteTodoList(id) on an id that matches no list
\* in the owner's scope returns false and leaves every list and todo unchanged.
ThmC7_DeleteTodoListMissing ==
  (last.op = "deleteTodoList" /\ ~InScope(variant, pre, last.user, last.listId)) =>
    /\ last.res = "false"
    /\ store = pre

\* deleteTodoList has returned false for the id of another owner's list.
WitC7_OtherOwnersList ==
  /\ last.op = "deleteTodoList"
  /\ last.res = "false"
  /\ variant = "pg"
  /\ \E u \in Users : u # last.user /\ InScope(variant, pre, u, last.listId)

\* ------------------------------------------------------------------ C8
\* The store st with the done flag of todo todoId of list id negated, for owner
\* u, and nothing else changed.
Negated(v, st, u, id, todoId) ==
  IF v = "session"
  THEN [st EXCEPT !.todoLists =
          [i \in DOMAIN @ |->
             IF @[i].id # id THEN @[i]
             ELSE [@[i] EXCEPT !.todos =
                     [j \in DOMAIN @ |->
                        IF @[j].id = todoId THEN [@[j] EXCEPT !.done = ~@] ELSE @[j]]]]]
  ELSE [st EXCEPT !.todos =
          [j \in DOMAIN @ |->
             IF /\ @[j].todolist_id = id /\ @[j].id = todoId
                /\ (v = "pg1" \/ @[j].username = u)
             THEN [@[j] EXCEPT !.done = ~@] ELSE @[j]]]

\* C8: toggleTodo(listId, todoId) on an existing todo negates that todo's done
\* flag and changes nothing else; a second call with the same ids restores the
\* store to its state before the first call.
ThmC8_ToggleTodoNegates ==
  ( /\ last.op = "toggleTodo"
    /\ TodoInScope(variant, pre, last.user, last.listId, last.todoId) ) =>
    /\ store = Negated(variant, pre, last.user, last.listId, last.todoId)
    /\ store # pre
    /\ toggleTodo(variant, store, last.user, last.listId, last.todoId).st = pre

\* toggleTodo has marked a done todo as not done while another todo is stored.
WitC8_ToggledBack ==
  /\ last.op = "toggleTodo"
  /\ TodoInScope(variant, pre, last.user, last.listId, last.todoId)
  /\ \E i \in DOMAIN ScopeTodos(variant, pre, last.user, last.listId) :
       /\ ScopeTodos(variant, pre, last.user, last.listId)[i].id = last.todoId
       /\ ScopeTodos(variant, pre, last.user, last.listId)[i].done
       /\ ~ScopeTodos(variant, store, last.user, last.listId)[i].done
  /\ TodoCount(variant, store) >= 2

\* ------------------------------------------------------------------ C9
\* C9: in every store variant toggleTodo(listId, todoId) returns true when the
\* todo exists in that list; when the list or the todo does not exist it
\* returns false, raises no error and changes or creates no todo.
CexC9_ToggleTodoResult ==
  last.op = "toggleTodo" =>
    IF TodoInScope(variant, pre, last.user, last.listId, last.todoId)
    THEN last.res = "true"
    ELSE /\ last.res = "false"
         /\ last.err = NoError
         /\ store = pre

\* ------------------------------------------------------------------ C10
\* C10: in the session-backed store deleteTodo(listId, todoId) for a todo that
\* exists in the list, at any position including the first, removes exactly
\* that todo, leaves the other todos of the list in their order, and returns true.
CexC10_SessionDeleteTodo ==
  ( /\ variant = "session"
    /\ last.op = "deleteTodo"
    /\ TodoInScope(variant, pre, last.user, last.listId, last.todoId) ) =>
    /\ last.res = "true"
    /\ ScopeTodos(variant, store, last.user, last.listId) =
         SelectSeq(ScopeTodos(variant, pre, last.user, last.listId),
                   LAMBDA t : t.id # last.todoId)
    /\ Others(variant, store, last.listId) = Others(variant, pre, last.listId)

\* ------------------------------------------------------------------ C11
\* C11: in the session-backed store deleteTodo(listId, todoId), where the list
\* exists and none of its todos has the id, removes no todo from any list and
\* does not report success.
CexC11_SessionDeleteTodoMissing ==
  ( /\ variant = "session"
    /\ last.op = "deleteTodo"
    /\ InScope(variant, pre, last.user, last.listId)
    /\ ~TodoInScope(variant, pre, last.user, last.listId, last.todoId) ) =>
    /\ last.res # "true"
    /\ store = pre

\* ------------------------------------------------------------------ C12
\* The table rows without the todo todoId of list id owned by u.
WithoutTodoRow(st, u, id, todoId) ==
  [st EXCEPT !.todos =
     SelectSeq(@, LAMBDA t : ~(t.todolist_id = id /\ t.id = todoId /\ t.username = u))]

\* C12: in the multi-user relational variant deleteTodo(listId, todoId) for a
\* todo in a list owned by the store's user deletes exactly that row and returns
\* true; for ids that match no such row it returns false and deletes nothing.
CexC12_PgDeleteTodo ==
  (variant = "pg" /\ last.op = "deleteTodo") =>
    IF TodoInScope(variant, pre, last.user, last.listId, last.todoId)
    THEN /\ last.res = "true"
         /\ store = WithoutTodoRow(pre, last.user, last.listId, last.todoId)
    ELSE /\ last.res = "false"
         /\ store = pre

\* ------------------------------------------------------------------ C13
\* What a caller can tell of a sequence of todos.
Cores(todos) == [i \in DOMAIN todos |-> Core(todos[i])]

\* C13: in every store variant addedTodo(listId, title) returns true exactly
\* when listId names a list in the owner's scope; that list then has one more
\* todo, with the given title and done = false, and every other todo is as it
\* was; when no such list is in the owner's scope it returns false, raises no
\* error and creates no todo.
CexC13_AddedTodo ==
  last.op = "addedTodo" =>
    IF InScope(variant, pre, last.user, last.listId)
    THEN LET before == ScopeTodos(variant, pre, last.user, last.listId)
             after  == ScopeTodos(variant, store, last.user, last.listId)
         IN  /\ last.res = "true"
             /\ Len(after) = Len(before) + 1
             /\ Cores(SubSeq(after, 1, Len(before))) = Cores(before)
             /\ after[Len(after)].title = last.title
             /\ after[Len(after)].done = FALSE
             /\ Others(variant, store, last.listId) = Others(variant, pre, last.listId)
    ELSE /\ last.res = "false"
         /\ last.err = NoError
         /\ Contents(variant, store) = Contents(variant, pre)

\* ------------------------------------------------------------------ C14
\* The store st with every todo of list id in owner u's scope marked done, and
\* nothing else changed.
Completed(v, st, u, id) ==
  IF v = "session"
  THEN [st EXCEPT !.todoLists =
          [i \in DOMAIN @ |->
             IF @[i].id # id THEN @[i]
             ELSE [@[i] EXCEPT !.todos = [j \in DOMAIN @ |-> [@[j] EXCEPT !.done = TRUE]]]]]
  ELSE [st EXCEPT !.todos =
          [j \in DOMAIN @ |->
             IF @[j].todolist_id = id /\ (v = "pg1" \/ @[j].username = u)
             THEN [@[j] EXCEPT !.done = TRUE] ELSE @[j]]]

\* C14: completeAllTodos(listId) on a list in the owner's scope returns true;
\* afterwards every todo of that list is done, the todos of the other lists are
\* unchanged, and isDoneTodoList of the reloaded list is true exactly when the
\* list has at least one todo.
ThmC14_CompleteAllTodos ==
  (last.op = "completeAllTodos" /\ InScope(variant, pre, last.user, last.listId)) =>
    LET after    == ScopeTodos(variant, store, last.user, last.listId)
        reloaded == loadTodoList(variant, store, last.user, last.listId)
    IN  /\ last.res = "true"
        /\ \A i \in DOMAIN after : after[i].done = TRUE
        /\ store = Completed(variant, pre, last.user, last.listId)
        /\ Others(variant, store, last.listId) = Others(variant, pre, last.listId)
        /\ reloaded.out # Absent
        /\ Cores(reloaded.out[1].todos) = Cores(after)
        /\ isDoneTodoList(reloaded.out[1]) <=> Len(after) >= 1

\* completeAllTodos has marked a todo done that was not, while a todo of
\* another list stays not done.
WitC14_OneListCompleted ==
  /\ last.op = "completeAllTodos"
  /\ last.res = "true"
  /\ \E i \in DOMAIN ScopeTodos(variant, pre, last.user, last.listId) :
       ~ScopeTodos(variant, pre, last.user, last.listId)[i].done
  /\ \E l \in ListIds(variant, store) \ { last.listId } :
       \E t \in ChildrenOf(variant, store, l) : ~t.done

\* ------------------------------------------------------------------ C15
\* C15: in every store variant completeAllTodos(listId) returns false when no
\* list with that id is in the owner's scope, and changes no todo.
CexC15_CompleteAllTodosMissing ==
  (last.op = "completeAllTodos" /\ ~InScope(variant, pre, last.user, last.listId)) =>
    /\ last.res = "false"
    /\ store = pre

\* ------------------------------------------------------------------ C16
\* The store st with the title of list id in owner u's scope set to title, and
\* nothing else changed.
Renamed(v, st, u, id, title) ==
  IF v = "session"
  THEN [st EXCEPT !.todoLists =
          [i \in DOMAIN @ |-> IF @[i].id = id THEN [@[i] EXCEPT !.title = title] ELSE @[i]]]
  ELSE [st EXCEPT !.todolists =
          [i \in DOMAIN @ |->
             IF @[i].id = id /\ (v = "pg1" \/ @[i].username = u)
             THEN [@[i] EXCEPT !.title = title] ELSE @[i]]]

\* Another list in owner u's scope has the title.
TitleTaken(v, st, u, id, title) ==
  \E l \in ScopeLists(v, st, u) : l.id # id /\ l.title = title

Handling(r, route, u, todoListId, title, pc, answer) ==
  [o \in Reqs |->
     IF o = r THEN [pc |-> pc, route |-> route, user |-> u, listId |-> todoListId,
                    title |-> title, answer |-> answer]
     ELSE IF reqs[o].pc = "idle" THEN NoRequest ELSE reqs[o]]

\* The requests that have yet to call createdTodoList.
PendingCreates == Cardinality({ r \in Reqs : reqs[r].pc = "createdTodoList" })

\* What POST /lists answers once createdTodoList has returned.
CreatedAnswer(c) ==
  IF c.res = "throw" THEN "error"
  ELSE IF c.res = "true" THEN "created" ELSE "unique-late"

\* The edit route without its catch block: every error is propagated.
UpdatedAnswerNoCatch(c) ==
  IF c.res = "throw" THEN "error"
  ELSE IF c.res = "true" THEN "updated" ELSE "not-found"

\* What POST /lists/:todoListId/edit answers once setTodoListTitle has returned
\* or thrown: the catch block re-renders the form for a unique-constraint error.
UpdatedAnswer(c) ==
  IF c.res = "throw"
  THEN IF isUniqueConstraintViolation(c.err) THEN "unique-late" ELSE "error"
  ELSE IF c.res = "true" THEN "updated" ELSE "not-found"

\* POST /lists up to the first query that is awaited.
PostLists(r) ==
  \E u \in Owners, title \in Titles :
    /\ reqs[r].pc = "idle"
    /\ ListCount(variant, store) + PendingCreates < MaxLists
    /\ ListIdsUsed(variant, store) + PendingCreates < MaxId
    /\ IF existsTodoListTitle(variant, store, u, title).res = "true"
       THEN /\ reqs' = Handling(r, "create", u, NoId, title, "idle", "unique")
            /\ UNCHANGED store
       ELSE IF variant = "session"
       THEN LET c == createdTodoList(variant, store, u, title, FALSE)
            IN  /\ reqs' = Handling(r, "create", u, NoId, title, "idle", CreatedAnswer(c))
                /\ store' = c.st
       ELSE /\ reqs' = Handling(r, "create", u, NoId, title, "createdTodoList", "none")
            /\ UNCHANGED store
    /\ UNCHANGED << variant, last, pre, users, sessionVars, calls >>

\* POST /lists from createdTodoList on.
PostListsCreated(r) ==
  /\ reqs[r].pc = "createdTodoList"
  /\ LET c == createdTodoList(variant, store, reqs[r].user, reqs[r].title, FALSE)
     IN  /\ reqs' = [reqs EXCEPT ![r].pc = "idle", ![r].answer = CreatedAnswer(c)]
         /\ store' = c.st
  /\ UNCHANGED << variant, last, pre, users, sessionVars, calls >>

\* POST /lists/:todoListId/edit up to the first query that is awaited.
\* rerenderEditList answers "Not found." when the list cannot be loaded
\* ("unique-not-found": the title was found taken, the list was not found).
PostEdit(r) ==
  \E u \in Owners, l \in ListIds(variant, store), title \in Titles :
    /\ reqs[r].pc = "idle"
    /\ IF existsTodoListTitle(variant, store, u, title).res = "true"
       THEN /\ reqs' = Handling(r, "edit", u, l, title, "idle",
                                IF loadTodoList(variant, store, u, l).out = Absent
                                THEN "unique-not-found" ELSE "unique")
            /\ UNCHANGED store
       ELSE IF variant = "session"
       THEN LET c == setTodoListTitle(variant, store, u, l, title)
            IN  /\ reqs' = Handling(r, "edit", u, l, title, "idle", UpdatedAnswer(c))
                /\ store' = c.st
       ELSE /\ reqs' = Handling(r, "edit", u, l, title, "setTodoListTitle", "none")
            /\ UNCHANGED store
    /\ UNCHANGED << variant, last, pre, users, sessionVars, calls >>

\* POST /lists/:todoListId/edit from setTodoListTitle on.
PostEditUpdated(r) ==
  /\ reqs[r].pc = "setTodoListTitle"
  /\ LET c == setTodoListTitle(variant, store, reqs[r].user, reqs[r].listId, reqs[r].title)
     IN  /\ reqs' = [reqs EXCEPT ![r].pc = "idle", ![r].answer = UpdatedAnswer(c)]
         /\ store' = c.st
  /\ UNCHANGED << variant, last, pre, users, sessionVars, calls >>

RouteNext ==
  \E r \in Reqs :
    \/ PostLists(r)
    \/ PostListsCreated(r)
    \/ PostEdit(r)
    \/ PostEditUpdated(r)

RouteSpec == Init /\ [][RouteNext]_vars

\* ------------------------------------------------------------------ C17
\* The list rows of the store with their owners.
ListRows(v, st) ==
  IF v = "session"
  THEN [i \in DOMAIN st.todoLists |->
          [id |-> st.todoLists[i].id, title |-> st.todoLists[i].title, username |-> NoUser]]
  ELSE st.todolists

\* C17: after any sequence of create-list and edit-title requests handled by
\* the routes, interleaved requests on the relational backend included, no two
\* lists of the same owner have the same title.
ThmC17_UniqueTitlePerOwner ==
  LET rows == ListRows(variant, store)
  IN  \A i, j \in DOMAIN rows :
        (i # j /\ rows[i].username = rows[j].username) => rows[i].title # rows[j].title

\* Two requests of one owner for one title both passed existsTodoListTitle; the
\* first has written the title and the second was stopped by the store.
WitC17_SecondWriterStopped ==
  \E r1, r2 \in Reqs :
    /\ r1 # r2
    /\ reqs[r1].answer \in { "created", "updated" }
    /\ reqs[r2].answer = "unique-late"
    /\ reqs[r1].user = reqs[r2].user
    /\ reqs[r1].title = reqs[r2].title
    /\ \E i \in DOMAIN ListRows(variant, store) :
         /\ ListRows(variant, store)[i].title = reqs[r2].title
         /\ ListRows(variant, store)[i].username = reqs[r2].user

\* ------------------------------------------------------------------ isValidLogin
\* The names a sign-in form may carry: the users and one that is no user.
LoginNames == Users \cup { "u3" }

\* Passwords, as character codes: "p", "q" and the empty string.
Passwords == { <<112>>, <<113>>, << >> }

\* The salts of the stored hashes.
Salts == { 1, 2 }

\* A bcrypt hash: the version, the salt, and the digest of salt and password
\* (the digest is written as the password's code units each shifted by the salt).
bcryptHash(password, salt) ==
  [version |-> "2b", salt |-> salt,
   digest |-> [i \in DOMAIN password |-> password[i] + salt]]

\* bcrypt.compare(password, hash): hashes the password with the salt of the
\* stored hash and compares the two.
bcryptCompare(password, hash) == bcryptHash(password, hash.salt) = hash

\* The users tables: each user has no row, or one row with the hash of a password.
UserTables ==
  LET rowsOf(u) == { << >> } \cup
                   { << [username |-> u, password |-> bcryptHash(p, s)] >> :
                     p \in Passwords \ { << >> }, s \in Salts }
  IN  { a \o b : a \in rowsOf("u1"), b \in rowsOf("u2") }

\* isValidLogin that does not look at the password.
PgIsValidLoginAnyPassword(db, table, username, password) ==
  LET result == SelectSeq(table, LAMBDA r : r.username = username)
  IN  Ret(db, Bool(Len(result) # 0), Absent, NoError)

\* SELECT password FROM users WHERE username = $1, then bcrypt.compare.
PgIsValidLogin(db, table, username, password) ==
  LET result == SelectSeq(table, LAMBDA r : r.username = username)
  IN  IF Len(result) = 0 THEN Ret(db, "false", Absent, NoError)
      ELSE Ret(db, Bool(bcryptCompare(password, result[1].password)), Absent, NoError)

\* The multi-user store with some users table.
LoginInit ==
  /\ variant = "pg"
  /\ store = StoreInit(variant)
  /\ pre = store
  /\ last = NoCall
  /\ users \in UserTables
  /\ Started

\* POST /users/signin calls isValidLogin(username, password); the call record
\* holds the password as its string argument.
IsValidLogin ==
  \E username \in LoginNames, password \in Passwords :
    Call("isValidLogin", username, NoId, NoId, password, FALSE,
         PgIsValidLogin(store, users, username, password))

LoginNext ==
  \/ IsValidLogin
  \/ Discard

LoginSpec == LoginInit /\ [][LoginNext]_vars

\* ------------------------------------------------------------------ C18
\* The users table has a row for the name / a row for the name whose hash is
\* the hash of the password under some salt.
KnownUser(table, username) == \E i \in DOMAIN table : table[i].username = username

Credentials(table, username, password) ==
  \E i \in DOMAIN table, s \in Salts :
    /\ table[i].username = username
    /\ table[i].password = bcryptHash(password, s)

\* C18: isValidLogin(username, password) returns true exactly when a user row
\* with that username exists and the password matches its stored hash; for an
\* unknown username and for a known username with a wrong password the result
\* is the same value, false.
ThmC18_IsValidLogin ==
  last.op = "isValidLogin" =>
    /\ last.res \in { "true", "false" }
    /\ (last.res = "true") <=> Credentials(users, last.user, last.title)
    /\ ~KnownUser(users, last.user) => (last.res = "false" /\ last.err = NoError)
    /\ (KnownUser(users, last.user) /\ ~Credentials(users, last.user, last.title)) =>
         (last.res = "false" /\ last.err = NoError)
    /\ store = pre

\* isValidLogin has answered false for a user that has a row, given a
\* password that is another user's.
WitC18_WrongPassword ==
  /\ last.op = "isValidLogin"
  /\ last.res = "false"
  /\ KnownUser(users, last.user)
  /\ \E u \in Users : u # last.user /\ Credentials(users, u, last.title)

\* ------------------------------------------------------------------ C19
\* What the read operations of a multi-user store bound to u return on the
\* database st, for the list ids ls, the todo ids ts and every title asked.
ReadsOf(st, u, ls, ts) ==
  [ loadTodoList        |-> [l \in ls |-> PgLoadTodoList(st, u, l).out],
    loadTodo            |-> [x \in ls \X ts |-> PgLoadTodo(st, u, x[1], x[2]).out],
    sortedTodoLists     |-> PgSortedTodoLists(st, u).out,
    sortedTodos         |-> [l \in ls |-> PgSortedTodos(st, u, [id |-> l]).out],
    existsTodoListTitle |-> [t \in QueryTitles |-> PgExistsTodoListTitle(st, u, t).res] ]

\* The owners written in the rows a read returned.
OwnersIn(op, out) ==
  CASE op = "loadTodoList" ->
         IF out = Absent THEN {}
         ELSE { out[1].username } \cup
              { out[1].todos[i].username : i \in DOMAIN out[1].todos }
    [] op = "loadTodo" -> IF out = Absent THEN {} ELSE { out[1].username }
    [] op = "sortedTodoLists" ->
         { out[i].username : i \in DOMAIN out } \cup
         UNION { { out[i].todos[j].username : j \in DOMAIN out[i].todos } :
                 i \in DOMAIN out }
    [] op = "sortedTodos" -> { out[i].username : i \in DOMAIN out }
    [] OTHER -> {}

\* C19: in the multi-user relational variant no operation of a store bound to
\* user A changes what any read operation of a store bound to another user B
\* returns, and A's reads never return a row owned by B.
CexC19_UserIsolation ==
  (variant = "pg" /\ last.op # "new") =>
    LET ls == ListIds(variant, pre) \cup ListIds(variant, store)
        ts == TodoIds(variant, pre) \cup TodoIds(variant, store)
    IN  /\ \A B \in Users \ { last.user } :
             ReadsOf(store, B, ls, ts) = ReadsOf(pre, B, ls, ts)
        /\ OwnersIn(last.op, last.out) \subseteq { last.user }

\* ------------------------------------------------------------------ C20
\* The todos of the session's lists as rows of the todos table, list by list.
RECURSIVE TodoRows(_, _)
TodoRows(todoLists, u) ==
  IF todoLists = <<>> THEN <<>>
  ELSE [i \in DOMAIN todoLists[1].todos |->
          [id |-> todoLists[1].todos[i].id, title |-> todoLists[1].todos[i].title,
           done |-> todoLists[1].todos[i].done, todolist_id |-> todoLists[1].id,
           username |-> u]]
       \o TodoRows(Tail(todoLists), u)

\* The database that holds, for owner u, the lists and todos of the session
\* store S; its sequences stand where the session's id generator stands.
ToDB(S, u) ==
  [todolists |-> [i \in DOMAIN S.todoLists |->
                    [id |-> S.todoLists[i].id, title |-> S.todoLists[i].title,
                     username |-> u]],
   todos     |-> TodoRows(S.todoLists, u),
   lseq      |-> S.currentId,
   tseq      |-> S.currentId]

\* What a caller bound to u can tell of a store: its lists in stored order and
\* the todos of each.
Abstract(v, st, u) ==
  LET rows == SelectSeq(ListRows(v, st), LAMBDA r : v # "pg" \/ r.username = u)
  IN  [i \in DOMAIN rows |->
         [id |-> rows[i].id, title |-> rows[i].title,
          todos |-> Cores(ScopeTodos(v, st, u, rows[i].id))]]

\* What a caller can tell of a list object and of the data an operation returned.
ListView(l) == [id |-> l.id, title |-> l.title, todos |-> Cores(l.todos)]

OutView(op, out) ==
  CASE op \in { "loadTodoList", "isDoneTodoList", "hasUndoneTodos" } ->
         IF out = Absent THEN Absent ELSE Present(ListView(out[1]))
    [] op = "loadTodo" -> IF out = Absent THEN Absent ELSE Present(Core(out[1]))
    [] op = "sortedTodoLists" -> [i \in DOMAIN out |-> ListView(out[i])]
    [] op = "sortedTodos" -> Cores(out)
    [] OTHER -> out

\* The call c made on a store of variant v with contents st, bound to u.
Apply(v, st, u, c) ==
  LET loaded == loadTodoList(v, st, u, c.listId)
  IN  CASE c.op = "loadTodoList" -> loaded
        [] c.op = "loadTodo" -> loadTodo(v, st, u, c.listId, c.todoId)
        [] c.op = "isDoneTodoList" ->
             Ret(st, Bool(isDoneTodoList(loaded.out[1])), loaded.out, NoError)
        [] c.op = "hasUndoneTodos" ->
             Ret(st, Bool(hasUndoneTodos(loaded.out[1])), loaded.out, NoError)
        [] c.op = "sortedTodoLists" -> sortedTodoLists(v, st, u)
        [] c.op = "sortedTodos" -> sortedTodos(v, st, u, loaded.out[1])
        [] c.op = "existsTodoListTitle" -> existsTodoListTitle(v, st, u, c.title)
        [] c.op = "deleteTodoList" -> deleteTodoList(v, st, u, c.listId)
        [] c.op = "createdTodoList" -> createdTodoList(v, st, u, c.title, c.fault)
        [] c.op = "toggleTodo" -> toggleTodo(v, st, u, c.listId, c.todoId)
        [] c.op = "deleteTodo" -> deleteTodo(v, st, u, c.listId, c.todoId)
        [] c.op = "addedTodo" -> addedTodo(v, st, u, c.listId, c.title)
        [] c.op = "completeAllTodos" -> completeAllTodos(v, st, u, c.listId)
        [] c.op = "setTodoListTitle" -> setTodoListTitle(v, st, u, c.listId, c.title)

\* C20: started from the same lists and todos, the session-backed store and the
\* relational store give the same result (success flag, absent marker or data)
\* for every operation of the store contract, and are left in corresponding
\* states, so a caller cannot tell the backends apart.
CexC20_BackendsEquivalent ==
  (variant = "session" /\ last.op # "new") =>
    LET r == Apply("pg", ToDB(pre, "u1"), "u1", last)
    IN  /\ r.res = last.res
        /\ r.err = last.err
        /\ OutView(last.op, r.out) = OutView(last.op, last.out)
        /\ Abstract("pg", r.st, "u1") = Abstract(variant, store, NoUser)

\* ------------------------------------------------------------------ session objects
\* The array of todo lists at a location of the heap: "SeedData", or the name
\* of the session that owns the array.
Deref(H, loc) == IF loc = "SeedData" THEN H.SeedData ELSE H.own[loc]

WriteTo(H, loc, todoLists) ==
  IF loc = "SeedData" THEN [H EXCEPT !.SeedData = todoLists]
  ELSE [H EXCEPT !.own[loc] = todoLists]

\* The constructor that keeps the SeedData object itself as the session's lists.
SessionConstructorSharesSeed(H, session, s) ==
  LET seeded == session.todoLists = Absent
      loc    == IF seeded THEN "SeedData" ELSE session.todoLists[1]
  IN  [heap |-> H, session |-> [session EXCEPT !.todoLists = Present(loc)],
       todoLists |-> loc, seeded |-> seeded]

\* new SessionPersistence(session), for the session named s:
\*   this._todoLists = session.todoLists || deepCopy(SeedData);
\*   session.todoLists = this._todoLists;
\* deepCopy allocates a new array, which the session then owns. An empty array
\* is truthy: a session whose lists were all deleted keeps its empty array.
SessionConstructor(H, session, s) ==
  LET seeded == session.todoLists = Absent
      loc    == IF seeded THEN s ELSE session.todoLists[1]
      H1     == IF seeded THEN WriteTo(H, s, deepCopy(H.SeedData)) ELSE H
  IN  [heap |-> H1, session |-> [session EXCEPT !.todoLists = Present(loc)],
       todoLists |-> loc, seeded |-> seeded]

\* A value in the caller's hands: val is what it reads as; ref, when present,
\* says that it is the very object at that place of the heap (list-th element
\* of the array at loc, and todo-th todo of it when todo is not 0).
RefTo(loc, list, todo, value) ==
  [ref |-> Present([loc |-> loc, list |-> list, todo |-> todo]), val |-> value]

\* deepCopy of an object: an equal object that is nowhere in the heap.
deepCopyOf(h) == [ref |-> Absent, val |-> deepCopy(h.val)]

\* loadTodoList that returns what _findTodoList found, without the copy.
InstLoadTodoListNoCopy(H, loc, todoListId) ==
  LET arr == Deref(H, loc)
      idx == findIndexById(arr, todoListId)
  IN  IF idx = -1 THEN << >> ELSE << RefTo(loc, idx + 1, 0, arr[idx + 1]) >>

\* The values the read methods of an instance hand to their caller.
\* loadTodoList: deepCopy(this._findTodoList(todoListId))
InstLoadTodoList(H, loc, todoListId) ==
  LET arr == Deref(H, loc)
      idx == findIndexById(arr, todoListId)
  IN  IF idx = -1 THEN << >>
      ELSE << deepCopyOf(RefTo(loc, idx + 1, 0, arr[idx + 1])) >>

\* loadTodo: deepCopy(this._findTodo(todoListId, todoId))
InstLoadTodo(H, loc, todoListId, todoId) ==
  LET arr == Deref(H, loc)
      li  == findIndexById(arr, todoListId)
      ti  == IF li = -1 THEN -1 ELSE findIndexById(arr[li + 1].todos, todoId)
  IN  IF ti = -1 THEN << >>
      ELSE << deepCopyOf(RefTo(loc, li + 1, ti + 1, arr[li + 1].todos[ti + 1])) >>

\* sortedTodoLists: the copy of the whole array is filtered into two new arrays,
\* which are sorted in place; the elements are those of the copy.
InstSortedTodoLists(H, loc) ==
  LET out == SessionSortedTodoLists([todoLists |-> Deref(H, loc),
                                     currentId |-> H.currentId]).out
  IN  [i \in DOMAIN out |-> [ref |-> Absent, val |-> out[i]]]

\* sortedTodos(todoList), on a list object the caller holds: the copy of its
\* todos is filtered and sorted.
InstSortedTodos(H, loc, todoList) ==
  LET out == SessionSortedTodos([todoLists |-> Deref(H, loc),
                                 currentId |-> H.currentId], todoList.val).out
  IN  [i \in DOMAIN out |-> [ref |-> Absent, val |-> out[i]]]

\* The heap after the caller has written new to the object at place ref.
WriteThrough(H, ref, new) ==
  WriteTo(H, ref.loc,
          IF ref.todo = 0 THEN [Deref(H, ref.loc) EXCEPT ![ref.list] = new]
          ELSE [Deref(H, ref.loc) EXCEPT ![ref.list].todos[ref.todo] = new])

\* The state before a request, kept for the properties.
Before == [heap |-> heap, sessions |-> sessions]

\* A request on session s: the constructor, then one method of the instance.
\* k is the constructor's outcome, r the method's, returned what the method
\* handed to the caller.
Handled(s, op, todoListId, todoId, title, k, r, returned) ==
  /\ last.op = "new"
  /\ pre' = Before
  /\ heap' = [WriteTo(k.heap, k.todoLists, r.st.todoLists)
                EXCEPT !.currentId = r.st.currentId]
  /\ sessions' = [sessions EXCEPT ![s] = k.session]
  /\ inst' = [session |-> s, todoLists |-> k.todoLists, seeded |-> k.seeded,
              saw |-> Deref(k.heap, k.todoLists), returned |-> returned,
              mutated |-> FALSE]
  /\ last' = [NoCall EXCEPT !.op = op, !.listId = todoListId, !.todoId = todoId,
                            !.title = title, !.res = r.res, !.out = r.out, !.err = r.err]
  /\ UNCHANGED << variant, store, reqs, users, calls >>

\* The store an instance works on: the array at its location and nextId's counter.
InstStore(k) == [todoLists |-> Deref(k.heap, k.todoLists), currentId |-> k.heap.currentId]

SessLoadTodoList(s) ==
  LET k == SessionConstructor(heap, sessions[s], s)
  IN  \E l \in ListIds("session", InstStore(k)) :
        Handled(s, "loadTodoList", l, NoId, NoTitle, k,
                SessionLoadTodoList(InstStore(k), l),
                InstLoadTodoList(k.heap, k.todoLists, l))

SessLoadTodo(s) ==
  LET k == SessionConstructor(heap, sessions[s], s)
  IN  \E l \in ListIds("session", InstStore(k)), t \in TodoIds("session", InstStore(k)) :
        Handled(s, "loadTodo", l, t, NoTitle, k,
                SessionLoadTodo(InstStore(k), l, t),
                InstLoadTodo(k.heap, k.todoLists, l, t))

SessSortedTodoLists(s) ==
  LET k == SessionConstructor(heap, sessions[s], s)
  IN  Handled(s, "sortedTodoLists", NoId, NoId, NoTitle, k,
              SessionSortedTodoLists(InstStore(k)),
              InstSortedTodoLists(k.heap, k.todoLists))

\* sortedTodos(todoList) on the list that loadTodoList returned.
SessSortedTodos(s) ==
  LET k == SessionConstructor(heap, sessions[s], s)
  IN  \E l \in ListIds("session", InstStore(k)) :
        LET loaded == InstLoadTodoList(k.heap, k.todoLists, l)
        IN  /\ loaded # << >>
            /\ Handled(s, "sortedTodos", l, NoId, NoTitle, k,
                       SessionSortedTodos(InstStore(k), loaded[1].val),
                       InstSortedTodos(k.heap, k.todoLists, loaded[1]))

SessCreatedTodoList(s) ==
  LET k == SessionConstructor(heap, sessions[s], s)
  IN  \E title \in Titles :
        /\ ListCount("session", InstStore(k)) < MaxLists
        /\ ListIdsUsed("session", InstStore(k)) < MaxId
        /\ Handled(s, "createdTodoList", NoId, NoId, title, k,
                   SessionCreatedTodoList(InstStore(k), title), << >>)

SessDeleteTodoList(s) ==
  LET k == SessionConstructor(heap, sessions[s], s)
  IN  \E l \in ListIds("session", InstStore(k)) :
        Handled(s, "deleteTodoList", l, NoId, NoTitle, k,
                SessionDeleteTodoList(InstStore(k), l), << >>)

SessAddedTodo(s) ==
  LET k == SessionConstructor(heap, sessions[s], s)
  IN  \E l \in ListIds("session", InstStore(k)), title \in TodoTitles :
        /\ TodoCount("session", InstStore(k)) < MaxTodos
        /\ TodoIdsUsed("session", InstStore(k)) < MaxId
        /\ Handled(s, "addedTodo", l, NoId, title, k,
                   SessionAddedTodo(InstStore(k), l, title), << >>)

SessCompleteAllTodos(s) ==
  LET k == SessionConstructor(heap, sessions[s], s)
  IN  \E l \in ListIds("session", InstStore(k)) :
        Handled(s, "completeAllTodos", l, NoId, NoTitle, k,
                SessionCompleteAllTodos(InstStore(k), l), << >>)

SessSetTodoListTitle(s) ==
  LET k == SessionConstructor(heap, sessions[s], s)
  IN  \E l \in ListIds("session", InstStore(k)), title \in Titles :
        Handled(s, "setTodoListTitle", l, NoId, title, k,
                SessionSetTodoListTitle(InstStore(k), l, title), << >>)

\* The caller changes a value a read handed to it: the title of a list object,
\* or the done flag of a todo object.
MutateReturned ==
  /\ last.op \in { "loadTodoList", "loadTodo", "sortedTodoLists", "sortedTodos" }
  /\ ~inst.mutated
  /\ \E i \in DOMAIN inst.returned :
       LET h   == inst.returned[i]
           new == IF last.op \in { "loadTodoList", "sortedTodoLists" }
                  THEN [h.val EXCEPT !.title = @ \o <<33>>]
                  ELSE [h.val EXCEPT !.done = ~@]
       IN  /\ inst' = [inst EXCEPT !.returned[i].val = new, !.mutated = TRUE]
           /\ heap' = IF h.ref = Absent THEN heap ELSE WriteThrough(heap, h.ref[1], new)
  /\ UNCHANGED << variant, store, last, pre, reqs, users, sessions, calls >>

\* The response is sent; the instance and what it returned are dropped.
Responded ==
  /\ last.op # "new"
  /\ last' = NoCall
  /\ inst' = NoInstance
  /\ pre' = Before
  /\ UNCHANGED << variant, store, reqs, users, heap, sessions, calls >>

SessionStoreInit ==
  /\ variant = "session"
  /\ store = StoreInit(variant)
  /\ last = NoCall
  /\ users = NoUsers
  /\ Started
  /\ pre = Before

SessionNext ==
  \/ \E s \in SessionIds :
       \/ SessLoadTodoList(s)
       \/ SessLoadTodo(s)
       \/ SessSortedTodoLists(s)
       \/ SessSortedTodos(s)
       \/ SessCreatedTodoList(s)
       \/ SessDeleteTodoList(s)
       \/ SessAddedTodo(s)
       \/ SessCompleteAllTodos(s)
       \/ SessSetTodoListTitle(s)
  \/ MutateReturned
  \/ Responded

SessionSpec == SessionStoreInit /\ [][SessionNext]_vars

\* ------------------------------------------------------------------ C21
\* The read the last request made, made once more on the lists as they are now.
ReadAgain ==
  LET S == [todoLists |-> Deref(heap, inst.todoLists), currentId |-> heap.currentId]
  IN  CASE last.op = "loadTodoList"    -> SessionLoadTodoList(S, last.listId)
        [] last.op = "loadTodo"        -> SessionLoadTodo(S, last.listId, last.todoId)
        [] last.op = "sortedTodoLists" -> SessionSortedTodoLists(S)
        [] last.op = "sortedTodos"     ->
             SessionSortedTodos(S, SessionLoadTodoList(S, last.listId).out[1])

SessionReads == { "loadTodoList", "loadTodo", "sortedTodoLists", "sortedTodos" }

\* C21: in the session store, after loadTodoList, loadTodo, sortedTodoLists or
\* sortedTodos the stored lists are what the instance held before the read, in
\* content and in order; and, also after the caller has changed a value the read
\* returned, the same read returns what it returned the first time.
ThmC21_ReadsReturnCopies ==
  (inst.session # "none" /\ last.op \in SessionReads) =>
    /\ Deref(heap, inst.todoLists) = inst.saw
    /\ ReadAgain.res = last.res
    /\ ReadAgain.out = last.out

\* A caller has changed the title of the list loadTodoList returned, and the
\* stored list still has the title it had.
WitC21_CallerChangedItsCopy ==
  /\ last.op = "loadTodoList"
  /\ last.res = "value"
  /\ inst.mutated
  /\ inst.returned[1].val.title # last.out[1].title
  /\ _findTodoList([todoLists |-> Deref(heap, inst.todoLists)], last.listId)
       = last.out

\* ------------------------------------------------------------------ C22
\* C22: a store instance made for a session installs the seed data exactly when
\* the session held no todoLists, and then holds a copy of the seed data;
\* otherwise it holds the session's array as the earlier requests of that
\* session left it. What a request does changes neither the array of the other
\* session nor the seed data.
ThmC22_SeedOncePerSession ==
  inst.session # "none" =>
    LET s      == inst.session
        before == pre.sessions[s].todoLists
    IN  /\ inst.seeded <=> before = Absent
        /\ inst.seeded => inst.saw = SeedData
        /\ ~inst.seeded => /\ inst.todoLists = before[1]
                           /\ inst.saw = Deref(pre.heap, before[1])
        /\ sessions[s].todoLists = Present(inst.todoLists)
        /\ \A o \in SessionIds \ { s } :
             /\ heap.own[o] = pre.heap.own[o]
             /\ sessions[o] = pre.sessions[o]
        /\ heap.SeedData = SeedData

\* A later instance of session s1 holds lists that an earlier request changed,
\* without seeding, while session s2 still holds the seed data it got.
WitC22_LaterInstanceSeesMutation ==
  /\ inst.session = "s1"
  /\ ~inst.seeded
  /\ inst.saw # SeedData
  /\ sessions["s2"].todoLists = Present("s2")
  /\ heap.own["s2"] = SeedData

\* ------------------------------------------------------------------ C23
\* The answers of a handler that passed existsTodoListTitle and called
\* createdTodoList or setTodoListTitle.
AfterCheck == { "created", "updated", "unique-late", "not-found", "error" }

\* Two requests of one owner for one title that were handled at one time, both
\* past the check and both answered.
Raced(r1, r2) ==
  /\ r1 # r2
  /\ reqs[r1].pc = "idle" /\ reqs[r2].pc = "idle"
  /\ reqs[r1].answer \in AfterCheck /\ reqs[r2].answer \in AfterCheck
  /\ reqs[r1].user = reqs[r2].user
  /\ reqs[r1].title = reqs[r2].title

\* The row a request writes: a new row for a create, the named list for an edit
\* (no row when the owner has no list of that id).
Target(r) ==
  IF reqs[r].route = "create" THEN "new"
  ELSE IF reqs[r].answer = "not-found" THEN "none" ELSE "list"

SameRow(r1, r2) ==
  /\ reqs[r1].route = "edit" /\ reqs[r2].route = "edit"
  /\ reqs[r1].listId = reqs[r2].listId

\* The lists of owner u titled title.
Titled(u, title) ==
  { i \in DOMAIN ListRows(variant, store) :
      /\ ListRows(variant, store)[i].title = title
      /\ ListRows(variant, store)[i].username = (IF variant = "pg" THEN u ELSE NoUser) }

\* C23 as stated: of two raced requests exactly one wrote and the other was
\* answered that the title must be unique.
CexC23_ExactlyOneWrite ==
  \A r1, r2 \in Reqs :
    Raced(r1, r2) =>
      \/ reqs[r1].answer \in { "created", "updated" } /\ reqs[r2].answer = "unique-late"
      \/ reqs[r2].answer \in { "created", "updated" } /\ reqs[r1].answer = "unique-late"

\* C23: of two raced requests that write different rows of the owner (a create
\* writes a new row, an edit the list it names) exactly one wrote and the other
\* was answered that the title must be unique. Two edits of one list both
\* succeed, and an edit of a list the owner does not have is answered "Not
\* found."; in every case no database error is propagated and at most one list
\* of the owner has the title.
ThmC23_RaceClosedByConstraint ==
  \A r1, r2 \in Reqs :
    Raced(r1, r2) =>
      /\ reqs[r1].answer # "error" /\ reqs[r2].answer # "error"
      /\ Cardinality(Titled(reqs[r1].user, reqs[r1].title)) <= 1
      /\ (Target(r1) # "none" /\ Target(r2) # "none" /\ ~SameRow(r1, r2)) =>
           \/ /\ reqs[r1].answer \in { "created", "updated" }
              /\ reqs[r2].answer = "unique-late"
           \/ /\ reqs[r2].answer \in { "created", "updated" }
              /\ reqs[r1].answer = "unique-late"
      /\ SameRow(r1, r2) => reqs[r1].answer = reqs[r2].answer
      /\ Target(r1) = "none" => reqs[r2].answer # "unique-late"

\* A create and an edit of one owner raced for one title; the edit wrote and
\* the create was answered that the title must be unique.
WitC23_CreateLostToEdit ==
  \E r1, r2 \in Reqs :
    /\ Raced(r1, r2)
    /\ reqs[r1].route = "edit" /\ reqs[r1].answer = "updated"
    /\ reqs[r2].route = "create" /\ reqs[r2].answer = "unique-late"

\* ------------------------------------------------------------------ statements
\* The relational methods statement by statement. Each dbQuery is one statement
\* of the database, and the statements of the requests being handled run in any
\* order that keeps each method's awaits: deleteTodoList awaits its DELETE
\* before it issues the confirmation; completeAllTodos issues its UPDATE and
\* its SELECT together and awaits both.
\* A method call that starts forgets the calls that returned before it started.
Calling(r, call) ==
  [o \in Reqs |-> IF o = r THEN call
                  ELSE IF calls[o].pc = "idle" THEN NoStatements ELSE calls[o]]

\* return bothResults[0].rowCount === bothResults[1].rowCount;
CompleteAllTodosResult(markCompleteRowCount, numTodosRowCount) ==
  Bool(markCompleteRowCount = numTodosRowCount)

\* deleteTodoList that does not look at the confirmation.
DeleteTodoListResultNoConfirm(deleteRowCount, confirmRowCount) ==
  Bool(confirmRowCount = 0)

\* return deleteResult.rowCount > 0 && confirmResult.rowCount === 0;
DeleteTodoListResult(deleteRowCount, confirmRowCount) ==
  Bool(deleteRowCount > 0 /\ confirmRowCount = 0)

\* The lists the statement-level runs hold at one time.
MaxRacedLists == 1

\* The list ids a statement may name: those of the lists in the database and
\* those the calls in flight were given, which may be deleted by now.
NamedIds ==
  ({ store.todolists[i].id : i \in DOMAIN store.todolists }
     \cup { calls[r].listId : r \in Reqs }) \ { NoId }

\* deleteTodoList up to its first await: the DELETE.
DeleteTodoListDelete(r) ==
  \E u \in Owners, l \in NamedIds :
    /\ calls[r].pc = "idle"
    /\ LET deleteResult == DeleteTodoListRows(store, l, u, variant = "pg1")
       IN  /\ store' = deleteResult.db
           /\ calls' = Calling(r, [NoStatements EXCEPT
                                     !.pc = "confirm", !.op = "deleteTodoList",
                                     !.user = u, !.listId = l,
                                     !.existed = InScope(variant, store, u, l),
                                     !.deleted = Present(deleteResult.rowCount)])
    /\ UNCHANGED << variant, last, pre, reqs, users, sessionVars >>

\* deleteTodoList from the confirmation on: the multi-user variant selects the
\* owner's todos of the list, the single-user variant repeats the DELETE.
DeleteTodoListConfirm(r) ==
  /\ calls[r].pc = "confirm"
  /\ LET c == calls[r]
         confirmResult ==
           IF variant = "pg"
           THEN Q(store, TodosOfList(store, c.listId, c.user, FALSE),
                  Len(TodosOfList(store, c.listId, c.user, FALSE)), NoError)
           ELSE DeleteTodoListRows(store, c.listId, NoUser, TRUE)
     IN  /\ store' = confirmResult.db
         /\ calls' = [calls EXCEPT ![r].pc = "idle",
                        ![r].res = DeleteTodoListResult(c.deleted[1], confirmResult.rowCount)]
  /\ UNCHANGED << variant, last, pre, reqs, users, sessionVars >>

\* completeAllTodos up to its await: both statements are issued.
CompleteAllTodosIssue(r) ==
  \E u \in Owners, l \in NamedIds :
    /\ calls[r].pc = "idle"
    /\ calls' = Calling(r, [NoStatements EXCEPT
                              !.pc = "issued", !.op = "completeAllTodos",
                              !.user = u, !.listId = l,
                              !.existed = InScope(variant, store, u, l)])
    /\ UNCHANGED << variant, store, last, pre, reqs, users, sessionVars >>

\* The call once both statements have run.
Settled(c) ==
  IF c.marked = Absent \/ c.counted = Absent THEN c
  ELSE [c EXCEPT !.pc = "idle", !.res = CompleteAllTodosResult(c.marked[1], c.counted[1])]

\* MARK_ALL_COMPLETE runs.
CompleteAllTodosMark(r) ==
  /\ calls[r].pc = "issued"
  /\ calls[r].marked = Absent
  /\ LET c == calls[r]
         markCompleteResult == MarkAllComplete(store, c.listId, c.user, variant = "pg1")
     IN  /\ store' = markCompleteResult.db
         /\ calls' = [calls EXCEPT ![r] =
                        Settled([c EXCEPT !.marked = Present(markCompleteResult.rowCount)])]
  /\ UNCHANGED << variant, last, pre, reqs, users, sessionVars >>

\* NUM_TODOS runs.
CompleteAllTodosCount(r) ==
  /\ calls[r].pc = "issued"
  /\ calls[r].counted = Absent
  /\ LET c == calls[r]
         numTodosResult == TodosOfList(store, c.listId, c.user, variant = "pg1")
     IN  calls' = [calls EXCEPT ![r] =
                     Settled([c EXCEPT !.counted = Present(Len(numTodosResult))])]
  /\ UNCHANGED << variant, store, last, pre, reqs, users, sessionVars >>

\* The methods of other requests that are one statement each.
OtherCreatedTodoList ==
  \E u \in Owners :
    /\ ListCount(variant, store) < MaxRacedLists
    /\ ListIdsUsed(variant, store) < MaxId
    /\ store' = createdTodoList(variant, store, u, <<66>>, FALSE).st
    /\ UNCHANGED << variant, last, pre, asideVars >>

OtherAddedTodo ==
  \E u \in Owners, l \in NamedIds :
    /\ TodoCount(variant, store) < MaxTodos
    /\ TodoIdsUsed(variant, store) < MaxId
    /\ store' = addedTodo(variant, store, u, l, <<97>>).st
    /\ UNCHANGED << variant, last, pre, asideVars >>

OtherDeleteTodo ==
  \E u \in Owners, l \in NamedIds, t \in TodoIds(variant, store) \ { NoSuchId } :
    /\ store' = deleteTodo(variant, store, u, l, t).st
    /\ UNCHANGED << variant, last, pre, asideVars >>

StatementInit ==
  /\ variant \in { "pg1", "pg" }
  /\ store = StoreInit(variant)
  /\ pre = store
  /\ last = NoCall
  /\ users = NoUsers
  /\ Started

StatementNext ==
  \/ \E r \in Reqs :
       \/ DeleteTodoListDelete(r)
       \/ DeleteTodoListConfirm(r)
       \/ CompleteAllTodosIssue(r)
       \/ CompleteAllTodosMark(r)
       \/ CompleteAllTodosCount(r)
  \/ OtherCreatedTodoList
  \/ OtherAddedTodo
  \/ OtherDeleteTodo

StatementSpec == StatementInit /\ [][StatementNext]_vars

\* ------------------------------------------------------------------ C24
\* Two calls of deleteTodoList on one list id that were in flight at one time
\* and have both returned; the list was in its caller's scope when one of them
\* ran its DELETE.
BothDeleted(r1, r2) ==
  /\ r1 # r2
  /\ calls[r1].op = "deleteTodoList" /\ calls[r2].op = "deleteTodoList"
  /\ calls[r1].pc = "idle" /\ calls[r2].pc = "idle"
  /\ calls[r1].listId = calls[r2].listId
  /\ calls[r1].existed \/ calls[r2].existed

\* C24: in the relational variants, of two concurrent deleteTodoList calls on
\* one existing list, whatever the order of their statements and of the todo
\* inserts and deletes of other requests, one returns true and the other false,
\* and afterwards no list row has that id and no todo row refers to it.
ThmC24_OneDeleteWins ==
  \A r1, r2 \in Reqs :
    BothDeleted(r1, r2) =>
      /\ { calls[r1].res, calls[r2].res } = { "true", "false" }
      /\ \A i \in DOMAIN store.todolists : store.todolists[i].id # calls[r1].listId
      /\ \A i \in DOMAIN store.todos : store.todos[i].todolist_id # calls[r1].listId

\* Both calls have returned, r1 with true and r2 with false, on a list that
\* todos were added to.
WitC24_SecondDeleteFalse ==
  /\ BothDeleted("r1", "r2")
  /\ calls["r1"].res = "true"
  /\ calls["r2"].res = "false"
  /\ calls["r2"].deleted = Present(0)
  /\ store.tseq > 0

\* ------------------------------------------------------------------ C25
\* C25 as stated: completeAllTodos on a list that is in the caller's scope when
\* the call is made and when it returns, returns true.
CexC25_CompleteAllTodosTrue ==
  \A r \in Reqs :
    ( /\ calls[r].op = "completeAllTodos"
      /\ calls[r].pc = "idle"
      /\ calls[r].existed
      /\ InScope(variant, store, calls[r].user, calls[r].listId) )
    => calls[r].res = "true"

\* ------------------------------------------------------------------ authentication
\* A request of the HTTP layer: the session it belongs to, res.locals.signedIn
\* and res.locals.store's username as the middleware set them when the request
\* arrived, the form it carries, where its handler stands and what it answered.
\* whileSignedIn says that the session's flag was set at each store operation the
\* request has made; nth tells a request from the one handled before it.
NoVisit == [pc |-> "idle", session |-> "none", route |-> "none", signedIn |-> FALSE,
            username |-> NoUser, title |-> NoTitle, password |-> << >>,
            answer |-> "none", whileSignedIn |-> TRUE, nth |-> FALSE]

\* The routes under /lists that the model handles.
ListRoutes == { "GET /lists", "POST /lists", "POST /lists/:todoListId/destroy" }

\* A guard that lets every request through.
requiresAuthenticationNever(signedIn) == "next"

\* requiresAuthentication: if (!res.locals.signedIn) redirect, else next().
requiresAuthentication(signedIn) == IF ~signedIn THEN "redirect" ELSE "next"

\* A request on session s as the middleware leaves it: a store bound to
\* session.username, res.locals.signedIn copied from the session.
Arrived(s, route) ==
  [NoVisit EXCEPT !.session = s, !.route = route,
                  !.signedIn = sessions[s].signedIn, !.username = sessions[s].username]

Redirected(v) == [v EXCEPT !.answer = "redirect-signin"]

\* The requests once r has arrived as v: the requests answered before are
\* forgotten, those being handled stay.
Visiting(r, v) ==
  [o \in Reqs |-> IF o = r THEN [v EXCEPT !.nth = ~reqs[r].nth]
                  ELSE IF reqs[o].pc = "idle" THEN [NoVisit EXCEPT !.nth = reqs[o].nth]
                  ELSE reqs[o]]

\* The users table of the runs: u1 with the password "p"; u2 and u3 have no row.
AuthUsers == << [username |-> "u1", password |-> bcryptHash(<<112>>, 1)] >>

\* The request has made a store operation; flag is the session's signedIn now.
Operated(v, flag) == [v EXCEPT !.whileSignedIn = @ /\ flag]

\* POST /users/signin: isValidLogin, then the session is marked.
PostSignin(r, s) ==
  \E username \in LoginNames, password \in Passwords \ { << >> } :
    /\ reqs[r].pc = "idle"
    /\ LET validLogin == PgIsValidLogin(store, users, username, password).res = "true"
           v == [Arrived(s, "POST /users/signin") EXCEPT !.title = NoTitle,
                                                         !.password = password]
       IN  IF ~validLogin
           THEN /\ reqs' = Visiting(r, [v EXCEPT !.answer = "invalid"])
                /\ UNCHANGED sessions
           ELSE /\ reqs' = Visiting(r, [v EXCEPT !.answer = "welcome"])
                /\ sessions' = [sessions EXCEPT ![s].username = username,
                                                ![s].signedIn = TRUE]
    /\ UNCHANGED << variant, store, last, pre, users, heap, inst, calls >>

\* POST /users/signout: delete req.session.username, req.session.signedIn.
PostSignout(r, s) ==
  /\ reqs[r].pc = "idle"
  /\ reqs' = Visiting(r, Redirected(Arrived(s, "POST /users/signout")))
  /\ sessions' = [sessions EXCEPT ![s].username = NoUser, ![s].signedIn = FALSE]
  /\ UNCHANGED << variant, store, last, pre, users, heap, inst, calls >>

\* GET /lists: the guard, then sortedTodoLists.
GetLists(r, s) ==
  /\ reqs[r].pc = "idle"
  /\ LET v == Arrived(s, "GET /lists")
     IN  reqs' = Visiting(r,
                    IF requiresAuthentication(v.signedIn) = "redirect" THEN Redirected(v)
                    ELSE [Operated(v, sessions[s].signedIn) EXCEPT !.answer = "lists"])
  /\ UNCHANGED << variant, store, last, pre, users, sessionVars, calls >>

\* POST /lists/:todoListId/destroy: the guard, then deleteTodoList.
PostDestroy(r, s) ==
  \E l \in ListIds(variant, store) :
    /\ reqs[r].pc = "idle"
    /\ LET v == Arrived(s, "POST /lists/:todoListId/destroy")
           c == PgDeleteTodoList(store, v.username, l)
       IN  IF requiresAuthentication(v.signedIn) = "redirect"
           THEN /\ reqs' = Visiting(r, Redirected(v))
                /\ UNCHANGED store
           ELSE /\ reqs' = Visiting(r,
                              [Operated(v, sessions[s].signedIn) EXCEPT
                                 !.answer = IF c.res = "true" THEN "deleted" ELSE "not-found"])
                /\ store' = c.st
    /\ UNCHANGED << variant, last, pre, users, sessionVars, calls >>

\* The handlers that have yet to call createdTodoList.
PendingPosts ==
  Cardinality({ r \in Reqs : reqs[r].pc \in { "existsTodoListTitle", "createdTodoList" } })

\* POST /lists: the guard; the handler then awaits existsTodoListTitle.
PostListsGuard(r, s) ==
  \E title \in Titles :
    /\ reqs[r].pc = "idle"
    /\ ListCount(variant, store) + PendingPosts < MaxLists
    /\ ListIdsUsed(variant, store) + PendingPosts < MaxId
    /\ LET v == [Arrived(s, "POST /lists") EXCEPT !.title = title]
       IN  reqs' = Visiting(r,
                      IF requiresAuthentication(v.signedIn) = "redirect" THEN Redirected(v)
                      ELSE [v EXCEPT !.pc = "existsTodoListTitle"])
    /\ UNCHANGED << variant, store, last, pre, users, sessionVars, calls >>

\* POST /lists: existsTodoListTitle has answered.
PostListsExists(r) ==
  /\ reqs[r].pc = "existsTodoListTitle"
  /\ LET v == Operated(reqs[r], sessions[reqs[r].session].signedIn)
     IN  reqs' = [reqs EXCEPT ![r] =
                    IF PgExistsTodoListTitle(store, v.username, v.title).res = "true"
                    THEN [v EXCEPT !.pc = "idle", !.answer = "unique"]
                    ELSE [v EXCEPT !.pc = "createdTodoList"]]
  /\ UNCHANGED << variant, store, last, pre, users, sessionVars, calls >>

\* POST /lists: createdTodoList has answered.
PostListsCreate(r) ==
  /\ reqs[r].pc = "createdTodoList"
  /\ LET v == Operated(reqs[r], sessions[reqs[r].session].signedIn)
         c == PgCreatedTodoList(store, v.username, v.title, FALSE)
     IN  /\ reqs' = [reqs EXCEPT ![r] = [v EXCEPT !.pc = "idle", !.answer = CreatedAnswer(c)]]
         /\ store' = c.st
  /\ UNCHANGED << variant, last, pre, users, sessionVars, calls >>

\* The multi-user application before any request, with some users table.
AuthInit ==
  /\ variant = "pg"
  /\ store = StoreInit(variant)
  /\ pre = store
  /\ last = NoCall
  /\ users = AuthUsers
  /\ reqs = [r \in Reqs |-> NoVisit]
  /\ heap = HeapInit
  /\ sessions = [s \in SessionIds |-> NewSession]
  /\ inst = NoInstance
  /\ calls = [r \in Reqs |-> NoStatements]

AuthNext ==
  \E r \in Reqs :
    \/ \E s \in SessionIds :
         \/ PostSignin(r, s)
         \/ PostSignout(r, s)
         \/ GetLists(r, s)
         \/ PostDestroy(r, s)
         \/ PostListsGuard(r, s)
    \/ PostListsExists(r)
    \/ PostListsCreate(r)

AuthSpec == AuthInit /\ [][AuthNext]_vars

\* ------------------------------------------------------------------ C26
\* The request has reached a store operation of a /lists route.
ReachedStore(v) ==
  /\ v.route \in ListRoutes
  /\ \/ v.pc \in { "existsTodoListTitle", "createdTodoList" }
     \/ v.answer \notin { "none", "redirect-signin" }

\* Request r arrives in this step.
Arrives(r) == reqs[r].pc = "idle" /\ reqs'[r].nth # reqs[r].nth

GuardedStore == \A r \in Reqs : ReachedStore(reqs[r]) => reqs[r].signedIn

\* A step that sets a session's flag is a sign-in with credentials of the users
\* table, and binds the session to that user.
FlagSetBySignin ==
  \A s \in SessionIds :
    (sessions'[s].signedIn /\ ~sessions[s].signedIn) =>
      \E r \in Reqs :
        /\ Arrives(r)
        /\ reqs'[r].route = "POST /users/signin"
        /\ reqs'[r].session = s
        /\ Credentials(users, sessions'[s].username, reqs'[r].password)

\* A /lists request that arrives while its session's flag is not set is
\* redirected to /users/signin, and the step changes no list and no todo.
RedirectedWhileSignedOut ==
  \A r \in Reqs :
    (Arrives(r) /\ reqs'[r].route \in ListRoutes
       /\ ~sessions[reqs'[r].session].signedIn) =>
      /\ reqs'[r].pc = "idle"
      /\ reqs'[r].answer = "redirect-signin"
      /\ store' = store

\* A step that changes a list or a todo is made by a request that found signedIn
\* set when it arrived.
ChangedBySignedIn ==
  store' # store =>
    \E r \in Reqs : /\ reqs'[r].signedIn
                    /\ Arrives(r) \/ reqs[r].pc = "createdTodoList"
                    /\ reqs'[r].pc = "idle"

CexC27_TodoOwnerIsListOwner ==
  variant = "pg" =>
    \A i \in DOMAIN store.todos, j \in DOMAIN store.todolists :
      store.todolists[j].id = store.todos[i].todolist_id =>
        store.todos[i].username = store.todolists[j].username

====
